---- MODULE Spec2Model ----
(***************************************************************************)
(* A model of the real-time event distribution of ev-charging-app:         *)
(* the ConnectionManager registry and its broadcast loop, the replayer     *)
(* (realtime_worker), apply_realtime_event with the document store it      *)
(* writes, and the NGSI-LD PATCH handler that shares apply_realtime_event  *)
(* with the replayer (backend/app/main.py, backend/app/etl.py); and the    *)
(* HTTP handlers of the entity API, the proximity search, the route        *)
(* request, the registration and the citizen session listings, each with   *)
(* the last request and its response kept in http; and the handlers that   *)
(* run in the thread pool (the verification of a registration, the admin   *)
(* operations on users, the profile update), each thread's request in      *)
(* flight kept in threads.                                                 *)
(*                                                                         *)
(* Python values are encoded as strings.  None is the Python None, NoKey   *)
(* marks a key that is missing from a dict.  A linked-data attribute is a  *)
(* record [kind, value, observedAt, object]: kind "absent" (no such key),  *)
(* "scalar" (present but not a dict) or "dict".                            *)
(***************************************************************************)
EXTENDS Integers, Sequences, FiniteSets, TLC

\* Number of WebSocket objects that may ever connect.
MaxConn == 3
\* Largest length of the sequence of events the replayer loads.
MaxEvents == 2

None == "None"
NoKey == "<nokey>"

WebSockets == 1..MaxConn
NoWs == 0

Procs == {"worker", "patch"}

----------------------------------------------------------------------------
(* Linked-data attributes and entities *)

\* An attribute is a record with the keys it has, tagged with its kind.
Scalar == [kind |-> "scalar"]
Prop(v) == [kind |-> "dict", value |-> v]
PropAt(v, o) == [kind |-> "dict", value |-> v, observedAt |-> o]
Rel(obj) == [kind |-> "dict", object |-> obj]

\* isinstance(attr, dict)
IsDict(attr) == attr.kind = "dict"

\* dict.get(key, default)
GetOr(d, key, default) == IF key \in DOMAIN d THEN d[key] ELSE default

\* dict.get(key)
Get(d, key) == GetOr(d, key, None)

\* An entity: its id and type (NoKey when the key is missing) and its attributes.
Entity(id, type, attrs) == [id |-> id, type |-> type, attrs |-> attrs]

\* entity.get(name): an attribute that is missing is None, which is no dict.
Attr(entity, name) == GetOr(entity.attrs, name, [kind |-> "absent"])

\* top-level entity.get("id") / entity.get("type")
DictGet(x) == IF x = NoKey THEN None ELSE x

EmptyDict == [k \in {} |-> None]

\* etl.get_property_value(entity, name, default)
get_property_value(entity, name, default) ==
    LET prop == Attr(entity, name)
    IN  IF ~IsDict(prop) THEN default ELSE GetOr(prop, "value", default)

\* entity.get(name, {}).get("object"); raises when the attribute is no dict.
RelObject(entity, name) ==
    LET rel == GetOr(entity.attrs, name, [kind |-> "dict"]) IN Get(rel, "object")

----------------------------------------------------------------------------
(* The document store: stations and sessions are functions from the _id of *)
(* each stored document to the document.  A document is its normalized     *)
(* fields plus raw, the linked-data entity it was imported from.  The      *)
(* created_at / updated_at timestamps are left out.                         *)

StationFields == {"available_capacity", "status", "instantaneous_power", "queue_length",
                  "name", "location"}

\* A GeoJSON point, the value of the location attribute: its coordinates are
\* [longitude, latitude].  NotADict is a value that is no dict (a string, null).
Point(coords) == [geo |-> "Point", coordinates |-> coords]
NotADict == [geo |-> "notadict"]

\* location_value = entity.get("location", {}).get("value", {}): the flat
\* location is GeoPoint(coordinates=location_value.get("coordinates", [])).
LocationValue(entity) == GetOr(Attr(entity, "location"), "value", [geo |-> "Point"])
LocationCoordinates(entity) == GetOr(LocationValue(entity), "coordinates", <<>>)

\* .get on something that is no dict raises AttributeError: the location or
\* the address attribute itself, or the value of the location.
StationGetRaises(entity) ==
    \/ Attr(entity, "location").kind = "scalar"
    \/ Attr(entity, "address").kind = "scalar"
    \/ LocationValue(entity).geo # "Point"

\* StationBase declares name and status as str: None fails validation.
StationValid(name, status) == name # None /\ status # None

\* JSON values: a number is written as its digits, a JSON string that holds
\* the digits of a number is written in quotes.
Numbers == {"0", "1", "2", "3", "5", "7", "9"}
NumericStrings == {"'5'"}

\* StationBase declares available_capacity and queue_length as Optional[int]
\* and instantaneous_power as Optional[float]: None and a number pass, a string
\* of digits is converted to its number, anything else fails validation.
NumberInvalid(v) == v \notin Numbers \cup NumericStrings \cup {None}
NumberOf(v) == IF v = "'5'" THEN "5" ELSE v

\* etl.import_station_entity: [raised, doc].
import_station_entity(entity) ==
    LET name == get_property_value(entity, "name", None)
        status == get_property_value(entity, "status", None)
        fields == [f \in StationFields |->
                     CASE f = "name" -> name
                       [] f = "status" -> status
                       [] f = "available_capacity" ->
                            NumberOf(get_property_value(entity, "availableCapacity", None))
                       [] f = "instantaneous_power" ->
                            NumberOf(get_property_value(entity, "instantaneousPower", None))
                       [] f = "queue_length" ->
                            NumberOf(get_property_value(entity, "queueLength", None))
                       [] f = "location" ->
                            IF StationGetRaises(entity) THEN <<>>
                            ELSE LocationCoordinates(entity)]
    IN  [raised |-> \/ entity.id = NoKey
                    \/ StationGetRaises(entity)
                    \/ ~StationValid(name, status)
                    \/ \E a \in {"availableCapacity", "instantaneousPower", "queueLength"} :
                          NumberInvalid(get_property_value(entity, a, None)),
         doc |-> [fields |-> fields, raw |-> entity]]

IsoTimes == {"t1", "t2"}

\* etl.parse_iso: isoparse raises on None and on a string that is no ISO time.
ParseIsoRaises(value) == value \notin IsoTimes

SessionFields == {"station_id", "sensor_id", "user_id", "vehicle_type", "charging_unit_id",
                  "transaction_id", "transaction_type", "start_date_time",
                  "end_date_time", "phenomenon_time", "result_time",
                  "power_consumption_kwh", "amount_collected_vnd",
                  "tax_amount_collected_vnd"}

\* The SessionBase fields declared without Optional: None fails validation.
SessionRequired == {"station_id", "start_date_time", "end_date_time", "phenomenon_time",
                    "result_time", "power_consumption_kwh", "amount_collected_vnd",
                    "tax_amount_collected_vnd"}

SessionFieldValue(entity, f) ==
    CASE f = "station_id" -> RelObject(entity, "refFeatureOfInterest")
      [] f = "sensor_id" -> RelObject(entity, "refSensor")
      [] f = "user_id" -> None
      [] f = "vehicle_type" -> get_property_value(entity, "vehicleType", None)
      [] f = "charging_unit_id" -> get_property_value(entity, "chargingUnitId", None)
      [] f = "transaction_id" -> get_property_value(entity, "transactionId", None)
      [] f = "transaction_type" -> get_property_value(entity, "transactionType", None)
      [] f = "start_date_time" -> get_property_value(entity, "startDateTime", None)
      [] f = "end_date_time" -> get_property_value(entity, "endDateTime", None)
      [] f = "phenomenon_time" -> get_property_value(entity, "phenomenonTime", None)
      [] f = "result_time" -> get_property_value(entity, "resultTime", None)
      [] f = "power_consumption_kwh" -> get_property_value(entity, "powerConsumption", None)
      [] f = "amount_collected_vnd" -> get_property_value(entity, "amountCollected", None)
      [] f = "tax_amount_collected_vnd" ->
           get_property_value(entity, "taxAmountCollected", None)

\* etl.import_session_entity: [raised, doc].  It raises on a missing id
\* (entity["id"]), on a relationship that is not a dict (.get on it), on a time
\* parse_iso rejects, and on a required field that is None (SessionInDB).
import_session_entity(entity) ==
    LET fields == [f \in SessionFields |-> SessionFieldValue(entity, f)]
    IN  [raised |->
            \/ entity.id = NoKey
            \/ \E r \in {"refFeatureOfInterest", "refSensor"} : Attr(entity, r).kind = "scalar"
            \/ \E f \in {"start_date_time", "end_date_time", "phenomenon_time",
                         "result_time"} : ParseIsoRaises(fields[f])
            \/ \E f \in SessionRequired : fields[f] = None,
         doc |-> [fields |-> fields, raw |-> entity]]

\* collection.replace_one({"_id": id}, doc, upsert=True)
replace_one(coll, id, doc) ==
    [k \in DOMAIN coll \cup {id} |-> IF k = id THEN doc ELSE coll[k]]

RawPaths == {"raw.availableCapacity.value", "raw.availableCapacity.observedAt",
             "raw.status.value", "raw.status.observedAt",
             "raw.instantaneousPower.value", "raw.queueLength.value"}

PathAttr(p) ==
    CASE p \in {"raw.availableCapacity.value", "raw.availableCapacity.observedAt"} ->
           "availableCapacity"
      [] p \in {"raw.status.value", "raw.status.observedAt"} -> "status"
      [] p = "raw.instantaneousPower.value" -> "instantaneousPower"
      [] p = "raw.queueLength.value" -> "queueLength"

PathIsValue(p) == p \notin {"raw.availableCapacity.observedAt", "raw.status.observedAt"}

RawPathsOf(a) == {p \in RawPaths : PathAttr(p) = a}

\* The attribute a of raw after $set of the dotted paths of rawSet that lead
\* into it: a missing attribute object is created, its other keys are kept.
SetRawAttr(raw, a, rawSet) ==
    LET old == GetOr(raw.attrs, a, [kind |-> "dict"])
        set == {p \in DOMAIN rawSet : PathAttr(p) = a}
        leaf(p) == IF PathIsValue(p) THEN "value" ELSE "observedAt"
        keys == DOMAIN old \cup {leaf(p) : p \in set}
    IN  [k \in keys |->
           IF \E p \in set : leaf(p) = k THEN rawSet[CHOOSE p \in set : leaf(p) = k]
           ELSE old[k]]

\* The store rejects $set of a dotted path that runs through a value that is
\* not a document (pymongo WriteError).
SetRaises(doc, rawSet) ==
    \E p \in DOMAIN rawSet : Attr(doc.raw, PathAttr(p)).kind = "scalar"

\* Mutant of SetDoc: a field that holds a value keeps it (first write wins).
SetDocIfUnset(doc, updates, rawSet) ==
    [doc EXCEPT !.fields = [f \in DOMAIN @ \cup DOMAIN updates |->
                              IF f \in DOMAIN @ /\ @[f] # None THEN @[f] ELSE updates[f]]]

\* The document after {"$set": {**updates, **raw_updates}}.
SetDoc(doc, updates, rawSet) ==
    LET touched == {PathAttr(p) : p \in DOMAIN rawSet}
    IN  [fields |-> [f \in DOMAIN doc.fields \cup DOMAIN updates |->
                       IF f \in DOMAIN updates THEN updates[f] ELSE doc.fields[f]],
         raw |-> [doc.raw EXCEPT !.attrs =
                    [a \in DOMAIN doc.raw.attrs \cup touched |->
                       IF a \in touched THEN SetRawAttr(doc.raw, a, rawSet)
                       ELSE doc.raw.attrs[a]]]]

\* Mutant of update_one: the update replaces the normalized fields instead of
\* setting the given ones.
UpdateOneReplacing(coll, id, updates, rawSet) ==
    IF id \notin DOMAIN coll THEN coll
    ELSE [coll EXCEPT ![id].fields = [f \in DOMAIN @ |-> GetOr(updates, f, None)]]

\* collection.update_one({"_id": id}, {"$set": ...}): no upsert, so an id
\* that matches no document changes nothing.
update_one(coll, id, updates, rawSet) ==
    IF id \notin DOMAIN coll THEN coll
    ELSE [coll EXCEPT ![id] = SetDoc(coll[id], updates, rawSet)]

----------------------------------------------------------------------------
(* apply_realtime_event, up to its await of manager.broadcast *)

\* value = attr.get("value"); if value is not None: ...
AttrValue(attr) == IF IsDict(attr) THEN Get(attr, "value") ELSE None
AttrObservedAt(attr) == IF IsDict(attr) THEN Get(attr, "observedAt") ELSE None

One(cond, key, value) == IF cond THEN key :> value ELSE EmptyDict

\* Mutant of StationUpdates: queueLength is forgotten.
StationUpdatesNoQueue(entity) ==
    LET av == AttrValue(Attr(entity, "availableCapacity"))
        sv == AttrValue(Attr(entity, "status"))
        pv == AttrValue(Attr(entity, "instantaneousPower"))
    IN  One(av # None, "available_capacity", av) @@ One(sv # None, "status", sv)
        @@ One(pv # None, "instantaneous_power", pv)

\* The dict updates of main.py lines 438-474.
StationUpdates(entity) ==
    LET av == AttrValue(Attr(entity, "availableCapacity"))
        sv == AttrValue(Attr(entity, "status"))
        pv == AttrValue(Attr(entity, "instantaneousPower"))
        qv == AttrValue(Attr(entity, "queueLength"))
    IN  One(av # None, "available_capacity", av) @@ One(sv # None, "status", sv)
        @@ One(pv # None, "instantaneous_power", pv) @@ One(qv # None, "queue_length", qv)

\* The dict raw_updates of main.py lines 439-474.
StationRawUpdates(entity) ==
    LET a == Attr(entity, "availableCapacity")
        s == Attr(entity, "status")
        pv == AttrValue(Attr(entity, "instantaneousPower"))
        qv == AttrValue(Attr(entity, "queueLength"))
    IN  One(AttrValue(a) # None, "raw.availableCapacity.value", AttrValue(a))
        @@ One(AttrObservedAt(a) # None, "raw.availableCapacity.observedAt",
               AttrObservedAt(a))
        @@ One(AttrValue(s) # None, "raw.status.value", AttrValue(s))
        @@ One(AttrObservedAt(s) # None, "raw.status.observedAt", AttrObservedAt(s))
        @@ One(pv # None, "raw.instantaneousPower.value", pv)
        @@ One(qv # None, "raw.queueLength.value", qv)

NoMsg == [type |-> "none"]

StationUpdateMsg(station_id, updates, observed_at) ==
    [type |-> "station_update", stationId |-> station_id,
     payload |-> [k \in {"available_capacity", "status", "instantaneous_power",
                         "queue_length", "observedAt"} |->
                    IF k = "observedAt" THEN observed_at ELSE Get(updates, k)]]

SessionUpsertMsg(entity) ==
    [type |-> "session_upsert", sessionId |-> DictGet(entity.id),
     stationId |-> RelObject(entity, "refFeatureOfInterest"),
     payload |-> [k \in {"vehicle_type", "start_date_time", "end_date_time",
                         "power_consumption_kwh", "amount_collected_vnd",
                         "tax_amount_collected_vnd"} |-> SessionFieldValue(entity, k)]]

\* What one call does before it awaits the broadcast (or returns, or raises):
\* the store after it, the number of store writes it issued and the messages it
\* hands to manager.broadcast.
Outcome(raised, st, se, writes, msgs) ==
    [raised |-> raised, stations |-> st, sessions |-> se, writes |-> writes, msgs |-> msgs]

\* `if not station_id`: None and the empty string are falsy.
Falsy(x) == x = None \/ x = ""

\* Mutant of NothingToWrite: the test reads raw_updates.
NothingToWriteRaw(updates, raw_updates) == DOMAIN raw_updates = {}

\* `if not updates: return`
NothingToWrite(updates, raw_updates) == DOMAIN updates = {}

\* Mutant of ApplyStationUpdate: the update is applied to the document of the
\* id in the sessions collection as well.
ApplyStationUpdateAnywhere(entity, st, se) ==
    LET station_id == DictGet(entity.id)
        updates == StationUpdates(entity)
    IN  IF Falsy(station_id) \/ DOMAIN updates = {} THEN Outcome(FALSE, st, se, 0, <<>>)
        ELSE Outcome(FALSE, st,
                     IF station_id \in DOMAIN se
                     THEN [se EXCEPT ![station_id].fields = updates @@ @] ELSE se,
                     1, <<StationUpdateMsg(station_id, updates, None)>>)

ApplyStationUpdate(entity, st, se) ==
    LET station_id == DictGet(entity.id)
        updates == StationUpdates(entity)
        raw_updates == StationRawUpdates(entity)
    IN  IF Falsy(station_id) THEN Outcome(FALSE, st, se, 0, <<>>)
        ELSE IF NothingToWrite(updates, raw_updates) THEN Outcome(FALSE, st, se, 0, <<>>)
        ELSE IF station_id \in DOMAIN st /\ SetRaises(st[station_id], raw_updates)
             THEN Outcome(TRUE, st, se, 1, <<>>)
        ELSE Outcome(FALSE, update_one(st, station_id, updates, raw_updates), se, 1,
                     <<StationUpdateMsg(station_id, updates,
                                        AttrObservedAt(Attr(entity, "status")))>>)

ApplySessionUpsert(entity, st, se) ==
    LET imp == import_session_entity(entity)
    IN  IF imp.raised THEN Outcome(TRUE, st, se, 0, <<>>)
        ELSE Outcome(FALSE, st, replace_one(se, entity.id, imp.doc), 1,
                     <<SessionUpsertMsg(entity)>>)

\* Mutant of apply_realtime_event: the operation is not looked at.
ApplyAnyOperation(event, st, se) ==
    IF DictGet(event.entity.type) = "EVChargingStation"
        THEN ApplyStationUpdate(event.entity, st, se)
    ELSE IF DictGet(event.entity.type) = "EVChargingSession"
        THEN ApplySessionUpsert(event.entity, st, se)
    ELSE Outcome(FALSE, st, se, 0, <<>>)

apply_realtime_event(event, st, se) ==
    LET entity == event.entity
        operation == DictGet(event.operation)
        entity_type == DictGet(entity.type)
    IN  IF entity_type = "EVChargingStation" /\ operation = "update"
            THEN ApplyStationUpdate(entity, st, se)
        ELSE IF entity_type = "EVChargingSession" /\ operation = "upsert"
            THEN ApplySessionUpsert(entity, st, se)
        ELSE Outcome(FALSE, st, se, 0, <<>>)

----------------------------------------------------------------------------
(* State *)

VARIABLES
    active_connections, \* manager.active_connections: a list of WebSockets
    conn,       \* per WebSocket, where its websocket_realtime handler is
    peer,       \* per WebSocket, the client: "ok", "broken" (sends raise), "hung"
    stations,   \* the stations collection
    sessions,   \* the sessions collection
    events,     \* the list load_realtime_events returned to realtime_worker
    pos,        \* realtime_worker: index in events of `for event in events`
    pc,         \* per task, its position
    frame,      \* per task, the local state of its call of manager.broadcast
    call,       \* per task, its last call of apply_realtime_event (history)
    hist,       \* realtime_worker: the event applied last and whether it slept since
    sensors,    \* the sensors collection
    users,      \* the users collection, by username
    pending,    \* the pending_registrations collection, by username
    now,        \* datetime.utcnow(), in seconds
    http,       \* the last HTTP request served and its response (history)
    threads     \* per thread of the pool, the locals of the handler it runs

\* The accounts and what their handlers read.
authVars == <<users, pending, now, threads>>

\* The state only the HTTP handlers of the API touch.
apiVars == <<sensors, users, pending, now, http, threads>>

vars == <<active_connections, conn, peer, stations, sessions, events, pos, pc, frame,
          call, hist, sensors, users, pending, now, http, threads>>

Range(seq) == {seq[k] : k \in DOMAIN seq}

\* No call of manager.broadcast yet in the current call of apply_realtime_event.
NoFrame ==
    [msg |-> NoMsg, i |-> 0, cur |-> NoWs, stale |-> <<>>, sent |-> <<>>,
     start |-> {}, quiet |-> TRUE, removed |-> {}, after |-> {}, done |-> FALSE]

\* No HTTP request served yet.
NoHttp == [op |-> "none"]

\* The threads of the pool that runs the handlers declared with def: a
\* request waits for its thread after its dependencies are resolved, and the
\* threads run side by side.
MaxThreads == 2
Threads == 1..MaxThreads

\* A thread that runs no handler.
Idle == [op |-> "idle"]

\* A user document: the fields the handlers read.
User(username, email, role, is_locked) ==
    [username |-> username, email |-> email, role |-> role, is_locked |-> is_locked]

\* The users collection maps the _id of each document to the document.  The
\* users the store holds at startup: an admin, a citizen (whose _id
\* create_default_users sets) and a locked admin.
SeedUsers ==
    ("oid-a" :> User("admin", "admin@x", "admin", FALSE))
    @@ ("citizen_user_1" :> User("citizen1", "citizen1@x", "citizen", FALSE))
    @@ ("oid-l" :> User("locked", "locked@x", "admin", TRUE))

\* The _ids insert_one gives to the documents that come without one.
ObjectIds == {"oid-1", "oid-2", "oid-3"}

\* users_collection.find_one({"username": username}): the _id of a document
\* with the username, None when there is none.
FindUsername(us, username) ==
    IF \E i \in DOMAIN us : us[i].username = username
    THEN CHOOSE i \in DOMAIN us : us[i].username = username
    ELSE None

NoCall ==
    [event |-> [operation |-> NoKey, entity |-> Entity(NoKey, NoKey, EmptyDict)],
     target |-> NoKey, found |-> None,
     writes |-> 0, bcasts |-> 0, raised |-> FALSE, status |-> "none"]

\* ConnectionManager.disconnect: list.remove of the first occurrence, if any.
RECURSIVE Remove(_, _)
Remove(seq, w) ==
    IF seq = <<>> THEN <<>>
    ELSE IF Head(seq) = w THEN Tail(seq)
    ELSE <<Head(seq)>> \o Remove(Tail(seq), w)

\* Mutant of disconnect: an unregistered WebSocket costs the last registered one.
DisconnectPops(list, w) ==
    IF w \in Range(list) THEN Remove(list, w) ELSE SubSeq(list, 1, Len(list) - 1)

\* if websocket in self.active_connections: self.active_connections.remove(websocket)
disconnect(list, w) == IF w \in Range(list) THEN Remove(list, w) ELSE list

\* for websocket in stale: self.disconnect(websocket)
RECURSIVE DisconnectAll(_, _)
DisconnectAll(list, stale) ==
    IF stale = <<>> THEN list
    ELSE DisconnectAll(disconnect(list, Head(stale)), Tail(stale))

\* Another task changed the registry: the broadcasts in progress are no longer
\* alone with it (history).
Disturb(fr, others, changed) ==
    [q \in Procs |-> IF q \in others /\ changed /\ fr[q].cur # NoWs
                     THEN [fr[q] EXCEPT !.quiet = FALSE] ELSE fr[q]]

\* Where task p goes on when its call of apply_realtime_event is over.
AfterApply(p, raised) ==
    IF p = "worker" THEN (IF raised THEN "crashed" ELSE "sleep") ELSE "idle"

\* ngsi_update_entity_attrs after apply_realtime_event: find_one, 404 or 200.
\* An exception of apply_realtime_event becomes a 500.
PatchStatus(raised, target, st) ==
    IF raised THEN "500" ELSE IF target \in DOMAIN st THEN "200" ELSE "404"

FinalStatus(p, raised, target, st) ==
    IF p = "worker" THEN "none" ELSE PatchStatus(raised, target, st)

\* The collection of the name, stations being st.
Collection(name, st) ==
    CASE name = "stations" -> st
      [] name = "sessions" -> sessions
      [] name = "sensors" -> sensors

\* ngsi_update_entity_attr and ngsi_append_entity_attrs after
\* apply_realtime_event: updated_doc = collection.find_one(...) in the
\* collection the entity was found in, and _doc_to_ngsi_entity(updated_doc),
\* which raises on None.
FoundStatus(raised, target, found, st) ==
    IF raised \/ target \notin DOMAIN Collection(found, st) THEN "500" ELSE "200"

\* The status of the response of task p, a request handler.
HandlerStatus(p, raised, target, found, st) ==
    IF found = None THEN FinalStatus(p, raised, target, st)
    ELSE FoundStatus(raised, target, found, st)

\* The first step of manager.broadcast(msg): stale = [], and the for loop takes
\* its first element and awaits the send to it.  Over an empty list the loops
\* are over at once.
BeginBroadcast(msg, list) ==
    IF list = <<>>
    THEN [NoFrame EXCEPT !.msg = msg, !.done = TRUE]
    ELSE [NoFrame EXCEPT !.msg = msg, !.i = 1, !.cur = list[1], !.start = Range(list)]

\* Task p calls apply_realtime_event(event) and runs it to its first await.
\* found names the collection the handler found the target in beforehand.
ApplyFound(p, event, target, found) ==
    LET out == apply_realtime_event(event, stations, sessions)
        waits == out.msgs # <<>> /\ active_connections # <<>>
    IN  /\ stations' = out.stations
        /\ sessions' = out.sessions
        /\ frame' = [frame EXCEPT ![p] = IF out.msgs = <<>> THEN NoFrame
                                         ELSE BeginBroadcast(out.msgs[1], active_connections)]
        /\ call' = [call EXCEPT ![p] =
                      [event |-> event, target |-> target, found |-> found,
                       writes |-> out.writes,
                       bcasts |-> Len(out.msgs), raised |-> out.raised,
                       status |-> IF waits THEN "none"
                                  ELSE HandlerStatus(p, out.raised, target, found,
                                                     out.stations)]]
        /\ pc' = [pc EXCEPT ![p] = IF waits THEN "send" ELSE AfterApply(p, out.raised)]
        /\ UNCHANGED <<active_connections, conn, peer, events>>

\* The replayer and ngsi_update_entity_attrs call it without a lookup.
Apply(p, event, target) == ApplyFound(p, event, target, None)

\* websocket.send_json(message) raises when the client is gone.
SendFails(w) == peer[w] = "broken"

\* The frame after the awaited send to f.cur returned or raised.
Attempted(f, failed) ==
    [f EXCEPT !.stale = IF failed THEN Append(@, f.cur) ELSE @,
              !.sent = IF failed THEN @ ELSE Append(@, f.cur)]

\* Mutant of BroadcastRaises: the failure of a send is not caught.
BroadcastRaisesOnStale(f) == f.stale # <<>>

\* try: await websocket.send_json(message) / except Exception: the failure of
\* a send is caught inside the loop, so broadcast itself raises nothing.
BroadcastRaises(f) == FALSE

\* The list iterator of `for websocket in self.active_connections`: it holds
\* an index into the list itself and stops when the index reaches its length.
HasNext(f, list) == f.i < Len(list)

\* Mutant of ListAfter: a stale WebSocket is disconnected as soon as its send failed.
EagerListAfter(f, list) == DisconnectAll(list, f.stale)

\* The registry after the step: the second loop, `for websocket in stale:
\* self.disconnect(websocket)`, runs only once the first one is over.
ListAfter(f, list) == IF HasNext(f, list) THEN list ELSE DisconnectAll(list, f.stale)

\* manager.broadcast of task p resumes after its awaited send: the send to
\* frame[p].cur returned or raised; the loop takes the next element and awaits
\* again, or is over, and then the stale ones are disconnected and the caller
\* goes on to its next await.
SendReturn(p) ==
    /\ UNCHANGED apiVars
    /\ pc[p] = "send"
    /\ peer[frame[p].cur] # "hung"
    /\ LET f == Attempted(frame[p], SendFails(frame[p].cur))
           list == ListAfter(f, active_connections)
           more == HasNext(f, active_connections)
       IN  /\ active_connections' = list
           /\ frame' = [Disturb(frame, Procs \ {p}, list # active_connections)
                          EXCEPT ![p] =
                            IF more
                            THEN [f EXCEPT !.i = @ + 1, !.cur = active_connections[f.i + 1],
                                           !.removed = Range(active_connections)
                                                       \ Range(list)]
                            ELSE [f EXCEPT !.cur = NoWs, !.done = TRUE,
                                           !.after = Range(list),
                                           !.removed = Range(active_connections)
                                                       \ Range(list)]]
           /\ pc' = [pc EXCEPT ![p] = IF more THEN "send"
                                      ELSE AfterApply(p, BroadcastRaises(f))]
           /\ call' = [call EXCEPT ![p].raised = ~more /\ BroadcastRaises(f),
                                   ![p].status =
                                      IF more THEN "none"
                                      ELSE HandlerStatus(p, BroadcastRaises(f),
                                                         call[p].target, call[p].found,
                                                         stations)]
           /\ UNCHANGED <<conn, peer, stations, sessions, events, pos, hist>>

----------------------------------------------------------------------------
(* The WebSocket endpoint /ws/realtime and its clients *)

\* websocket_realtime: manager.connect accepts and appends the WebSocket.
\* The WebSocket objects are numbered in the order in which they connect.
\* Mutant of Connect: the WebSocket is appended twice.
ConnectAppendsTwice(w) ==
    /\ UNCHANGED apiVars
    /\ conn[w] = "new"
    /\ \A v \in 1..(w - 1) : conn[v] # "new"
    /\ conn' = [conn EXCEPT ![w] = "open"]
    /\ active_connections' = active_connections \o <<w, w>>
    /\ frame' = Disturb(frame, Procs, TRUE)
    /\ UNCHANGED <<peer, stations, sessions, events, pos, pc, call, hist>>

Connect(w) ==
    /\ UNCHANGED apiVars
    /\ conn[w] = "new"
    /\ \A v \in 1..(w - 1) : conn[v] # "new"
    /\ conn' = [conn EXCEPT ![w] = "open"]
    /\ active_connections' = Append(active_connections, w)
    /\ frame' = Disturb(frame, Procs, TRUE)
    /\ UNCHANGED <<peer, stations, sessions, events, pos, pc, call, hist>>

\* The client of an open WebSocket goes away.
PeerClose(w) ==
    /\ UNCHANGED apiVars
    /\ conn[w] = "open"
    /\ peer[w] = "ok"
    /\ peer' = [peer EXCEPT ![w] = "broken"]
    /\ UNCHANGED <<active_connections, conn, stations, sessions, events, pos, pc, frame,
                   call, hist>>

\* The client of an open WebSocket stops reading: sends to it never complete.
PeerStall(w) ==
    /\ UNCHANGED apiVars
    /\ conn[w] = "open"
    /\ peer[w] = "ok"
    /\ peer' = [peer EXCEPT ![w] = "hung"]
    /\ UNCHANGED <<active_connections, conn, stations, sessions, events, pos, pc, frame,
                   call, hist>>

\* websocket_realtime: receive_text raises, the handler calls
\* manager.disconnect(websocket) and ends.
HandlerDisconnect(w) ==
    /\ UNCHANGED apiVars
    /\ conn[w] = "open"
    /\ peer[w] = "broken"
    /\ conn' = [conn EXCEPT ![w] = "closed"]
    /\ active_connections' = disconnect(active_connections, w)
    /\ frame' = Disturb(frame, Procs, active_connections' # active_connections)
    /\ UNCHANGED <<peer, stations, sessions, events, pos, pc, call, hist>>

----------------------------------------------------------------------------
(* The replayer *)

\* realtime_worker: events = load_realtime_events(); if not events: return
WorkerStart ==
    /\ UNCHANGED apiVars
    /\ pc["worker"] = "start"
    /\ pc' = [pc EXCEPT !["worker"] = IF events = <<>> THEN "returned" ELSE "apply"]
    /\ pos' = 1
    /\ UNCHANGED <<active_connections, conn, peer, stations, sessions, events, frame,
                   call, hist>>

\* realtime_worker: await apply_realtime_event(event)
WorkerApply ==
    /\ UNCHANGED apiVars
    /\ pc["worker"] = "apply"
    /\ Apply("worker", events[pos], NoKey)
    /\ hist' = [last |-> pos, slept |-> FALSE]
    /\ UNCHANGED pos

\* Mutant of NextPos: every sleep restarts the file.
NextPosRestart(p, n) == 1

\* The index of the event after the one at position p: `for event in events`
\* inside `while True`.
NextPos(p, n) == IF p < n THEN p + 1 ELSE 1

\* realtime_worker: await asyncio.sleep(REALTIME_SLEEP_SECONDS) is over.
WorkerSleep ==
    /\ UNCHANGED apiVars
    /\ pc["worker"] = "sleep"
    /\ pos' = NextPos(pos, Len(events))
    /\ pc' = [pc EXCEPT !["worker"] = "apply"]
    /\ hist' = [hist EXCEPT !.slept = TRUE]
    /\ frame' = [frame EXCEPT !["worker"] = NoFrame]
    /\ call' = [call EXCEPT !["worker"] = NoCall]
    /\ UNCHANGED <<active_connections, conn, peer, stations, sessions, events>>

----------------------------------------------------------------------------
(* PATCH /ngsi-ld/v1/entities/{entity_id}/attrs *)

\* The body of a request that gives attributes: the keys "id" and "type" of
\* the body apart (NoKey when it has none), and its other keys.
PatchAttrs(given) == [id |-> NoKey, type |-> NoKey, attrs |-> given]

\* ngsi_update_entity_attrs: {"id": entity_id, "type": "EVChargingStation", **attrs}
PatchEvent(entity_id, attrs) ==
    [operation |-> "update",
     entity |-> [id |-> IF attrs.id # NoKey THEN attrs.id ELSE entity_id,
                 type |-> IF attrs.type # NoKey THEN attrs.type ELSE "EVChargingStation",
                 attrs |-> attrs.attrs]]

\* A request arrives and ngsi_update_entity_attrs runs to its first await.
PatchRequest(entity_id, attrs) ==
    /\ UNCHANGED apiVars
    /\ pc["patch"] = "idle"
    /\ Apply("patch", PatchEvent(entity_id, attrs), entity_id)
    /\ UNCHANGED <<pos, hist>>

\* for collection in collections: doc = collection.find_one({"_id": entity_id}):
\* the name of the first collection that holds the id, None when none does.
FoundIn(entity_id) ==
    IF entity_id \in DOMAIN stations THEN "stations"
    ELSE IF entity_id \in DOMAIN sessions THEN "sessions"
    ELSE IF entity_id \in DOMAIN sensors THEN "sensors"
    ELSE None

\* The handler of a request for an id no collection holds raises the 404 at once.
NotFound(entity_id) ==
    /\ call' = [call EXCEPT !["patch"] = [NoCall EXCEPT !.target = entity_id,
                                                        !.status = "404"]]
    /\ frame' = [frame EXCEPT !["patch"] = NoFrame]
    /\ UNCHANGED <<active_connections, conn, peer, stations, sessions, events, pc>>

\* POST /ngsi-ld/v1/entities/{entity_id}/attrs runs to its first await.  The
\* event is {"id": entity_id, "type": doc.get("type", "EVChargingStation"),
\* **attrs}: a stored document has no key "type", whatever its collection, so
\* the type is the default, as in PatchEvent.
ngsi_append_entity_attrs(entity_id, attrs) ==
    /\ UNCHANGED apiVars
    /\ pc["patch"] = "idle"
    /\ IF FoundIn(entity_id) = None THEN NotFound(entity_id)
       ELSE ApplyFound("patch", PatchEvent(entity_id, attrs), entity_id, FoundIn(entity_id))
    /\ UNCHANGED <<pos, hist>>

\* PATCH /ngsi-ld/v1/entities/{entity_id}/attrs/{attr_name} runs to its first
\* await: the same with the one attribute {attr_name: attr_value}, attr_name
\* being neither "id" nor "type".
ngsi_update_entity_attr(entity_id, attr_name, attr_value) ==
    /\ UNCHANGED apiVars
    /\ pc["patch"] = "idle"
    /\ IF FoundIn(entity_id) = None THEN NotFound(entity_id)
       ELSE ApplyFound("patch", PatchEvent(entity_id, PatchAttrs(attr_name :> attr_value)),
                       entity_id, FoundIn(entity_id))
    /\ UNCHANGED <<pos, hist>>

----------------------------------------------------------------------------
(* Inputs *)

StationType == "EVChargingStation"
SessionType == "EVChargingSession"

\* The station the store holds at startup, as etl.import_stations stored it.
SeedStation ==
    Entity("st1", StationType,
           ("name" :> Prop("n")) @@ ("status" :> Prop("free"))
           @@ ("availableCapacity" :> Prop("0")) @@ ("instantaneousPower" :> Prop("0"))
           @@ ("queueLength" :> Prop("0")) @@ ("location" :> Prop(Point(<<0, 0>>))))

\* A second station, with none of the optional attributes.
BareStation ==
    Entity("st2", StationType, ("name" :> Prop("m")) @@ ("status" :> Prop("free")))

SeedStations ==
    [id \in {"st1", "st2"} |->
       import_station_entity(IF id = "st1" THEN SeedStation ELSE BareStation).doc]

Event(operation, entity) == [operation |-> operation, entity |-> entity]

\* A session entity with every attribute import_session_entity reads.
FullSession ==
    ("refFeatureOfInterest" :> Rel("st1")) @@ ("refSensor" :> Rel("sn1"))
    @@ ("startDateTime" :> Prop("t1")) @@ ("endDateTime" :> Prop("t2"))
    @@ ("phenomenonTime" :> Prop("t1")) @@ ("resultTime" :> Prop("t2"))
    @@ ("vehicleType" :> Prop("car")) @@ ("chargingUnitId" :> Prop("u1"))
    @@ ("transactionId" :> Prop("x1")) @@ ("transactionType" :> Prop("pay"))
    @@ ("powerConsumption" :> Prop("5")) @@ ("amountCollected" :> Prop("9"))
    @@ ("taxAmountCollected" :> Prop("1"))

\* f without the keys of ks.
Without(f, ks) == [k \in DOMAIN f \ ks |-> f[k]]

EvAvail == Event("update", Entity("st1", StationType,
                                  "availableCapacity" :> Prop("1")))
EvNoAttr == Event("update", Entity("st1", StationType, EmptyDict))
EvSession == Event("upsert", Entity("se1", SessionType, FullSession))
EvSessionNoStart ==
    Event("upsert", Entity("se1", SessionType, Without(FullSession, {"startDateTime"})))

\* The events of the replayer's file in the specification of the tasks.
TaskEvents == {EvAvail, EvNoAttr, EvSessionNoStart}

\* All the sequences over S of length at most n.
SeqsUpTo(S, n) == UNION {[1..k -> S] : k \in 0..n}

\* The bodies of the PATCH requests in the specification of the tasks.
TaskPatches == {PatchAttrs("availableCapacity" :> Prop("2"))}
TaskTargets == {"st1", "st9"}

----------------------------------------------------------------------------
(* The specification of the tasks: the replayer, one PATCH handler at a   *)
(* time and the WebSocket handlers, interleaved at their awaits.           *)

\* The clients never stall here; PeerStall is part of the specification of
\* stalled clients below.
InitWith(eventSeqs) ==
    /\ active_connections = <<>>
    /\ conn = [w \in WebSockets |-> "new"]
    /\ peer = [w \in WebSockets |-> "ok"]
    /\ stations = SeedStations
    /\ sessions = EmptyDict
    /\ events \in eventSeqs
    /\ pos = 1
    /\ pc = [p \in Procs |-> IF p = "worker" THEN "start" ELSE "idle"]
    /\ frame = [p \in Procs |-> NoFrame]
    /\ call = [p \in Procs |-> NoCall]
    /\ hist = [last |-> 0, slept |-> FALSE]
    /\ sensors = EmptyDict
    /\ users = SeedUsers
    /\ pending = EmptyDict
    /\ now = 0
    /\ http = NoHttp
    /\ threads = [t \in Threads |-> Idle]

Init == InitWith(SeqsUpTo(TaskEvents, MaxEvents))

Next ==
    \/ \E w \in WebSockets : Connect(w)
    \/ \E w \in WebSockets : PeerClose(w)
    \/ \E w \in WebSockets : HandlerDisconnect(w)
    \/ WorkerStart
    \/ WorkerApply
    \/ WorkerSleep
    \/ SendReturn("worker")

Spec == Init /\ [][Next]_vars

----------------------------------------------------------------------------
(* The specification of stalled clients: the tasks above, a client may     *)
(* also stop reading.  The event loop resumes every task that can go on.   *)

InitStall == InitWith({<<EvAvail>>})

NextStall ==
    \/ Next
    \/ \E w \in WebSockets : PeerStall(w)

Fairness ==
    /\ WF_vars(WorkerStart)
    /\ WF_vars(WorkerApply)
    /\ WF_vars(WorkerSleep)
    /\ WF_vars(SendReturn("worker"))
    /\ \A w \in WebSockets : WF_vars(HandlerDisconnect(w))

SpecStall == InitStall /\ [][NextStall]_vars /\ Fairness

----------------------------------------------------------------------------
(* The specification of the events: the replayer over a file of one event, *)
(* drawn from the shapes an event can have, and one WebSocket client.      *)

RecognizedAttrs == {"availableCapacity", "status", "instantaneousPower", "queueLength"}

AttrChoices(a) ==
    CASE a = "availableCapacity" ->
           {Scalar, Prop(None), Prop("0"), Prop("1"), PropAt("1", "t1"), PropAt(None, "t1")}
      [] a = "status" ->
           {Prop(None), Prop("free"), Prop("busy"), PropAt("busy", "t1"), PropAt(None, "t1")}
      [] a = "instantaneousPower" -> {Prop(None), Prop("7")}
      [] a = "queueLength" -> {Scalar, Prop("3")}

\* The dicts that give some of the recognized attributes, each in one of its shapes.
StationUpdateAttrs ==
    UNION {{f \in [D -> UNION {AttrChoices(a) : a \in RecognizedAttrs}] :
              \A a \in D : f[a] \in AttrChoices(a)} : D \in SUBSET RecognizedAttrs}

StationUpdateEvents ==
    {Event("update", Entity(id, StationType, attrs)) :
       id \in {"st1", "st2"}, attrs \in StationUpdateAttrs}
    \cup {Event("update", Entity(id, StationType, "availableCapacity" :> Prop("1"))) :
            id \in {NoKey, "", "st9"}}

OptionalSessionAttrs ==
    {"refSensor", "vehicleType", "chargingUnitId", "transactionId", "transactionType"}

RequiredSessionAttrs == DOMAIN FullSession \ OptionalSessionAttrs

SessionUpsertEvents ==
    {Event("upsert", Entity("se1", SessionType, Without(FullSession, ks))) :
       ks \in SUBSET OptionalSessionAttrs}
    \cup {Event("upsert", Entity("se1", SessionType, Without(FullSession, {k}))) :
            k \in RequiredSessionAttrs}
    \cup {Event("upsert", Entity("se1", SessionType, ("vehicleType" :> Scalar) @@ FullSession)),
          Event("upsert", Entity("se1", SessionType,
                                 ("startDateTime" :> Prop("soon")) @@ FullSession)),
          Event("upsert", Entity("se1", SessionType,
                                 ("refFeatureOfInterest" :> Scalar) @@ FullSession)),
          Event("upsert", Entity(NoKey, SessionType, FullSession))}

OtherEvents ==
    {Event(op, Entity("st1", type, attrs)) :
       op \in {"update", "upsert", "delete", NoKey},
       type \in {StationType, SessionType, "Sensor", NoKey},
       attrs \in {"availableCapacity" :> Prop("1"), FullSession}}

EventShapes == StationUpdateEvents \cup SessionUpsertEvents \cup OtherEvents

InitApply == InitWith({<<e>> : e \in EventShapes})

NextApply ==
    \/ Connect(1)
    \/ PeerClose(1)
    \/ HandlerDisconnect(1)
    \/ WorkerStart
    \/ WorkerApply
    \/ WorkerSleep
    \/ SendReturn("worker")

SpecApply == InitApply /\ [][NextApply]_vars

----------------------------------------------------------------------------
(* Properties *)

W == "worker"

Failed(f) == Range(f.stale)
Sent(f) == Range(f.sent)

\* C1: a broadcast that ran alone with the registry leaves exactly the
\* subscribers whose send did not fail registered, and each of them was sent
\* the message (one failure among N leaves N-1); whatever interleaves, a
\* broadcast removes only subscribers whose send failed in it, none of those is
\* registered when it returns, and it removes nothing before its pass over the
\* registry is over.
C1_BroadcastRemovesTheFailed ==
    LET f == frame[W]
    IN  /\ f.removed # {} => f.done
        /\ f.done => f.removed \subseteq Failed(f) /\ Failed(f) \cap f.after = {}
        /\ (f.done /\ f.quiet) =>
              /\ Sent(f) = f.start \ Failed(f)
              /\ f.after = f.start \ Failed(f)
              /\ f.removed = Failed(f)
              /\ Cardinality(Failed(f)) = 1 =>
                    Cardinality(f.after) = Cardinality(f.start) - 1

C1_Witness ==
    LET f == frame[W]
    IN  /\ f.done /\ f.quiet
        /\ Cardinality(f.start) > 2
        /\ Len(f.stale) = 1
        /\ Cardinality(f.after) = Cardinality(f.start) - 1
        /\ Sent(f) = f.after

\* C2: when connect and disconnect of other subscribers interleave with a
\* broadcast, every subscriber that is registered from before it starts until
\* after it returns, and whose send does not fail, is sent the message.
C2_RegisteredThroughoutIsSent ==
    LET f == frame[W]
    IN  f.done => \A w \in f.start \cap f.after : w \notin Failed(f) => w \in Sent(f)

\* C3: a send that never completes does not block the broadcast: every other
\* registered subscriber that the broadcast in progress has not reached yet is
\* eventually reached (or is unregistered, or the broadcast returns).
C3_StalledSendDoesNotBlockOthers ==
    \A w \in WebSockets :
        (/\ pc[W] = "send"
         /\ w \in Range(active_connections)
         /\ w \notin Sent(frame[W]) \cup Failed(frame[W]) \cup {frame[W].cur})
        ~> (\/ pc[W] # "send"
            \/ w \notin Range(active_connections)
            \/ w \in Sent(frame[W]) \cup Failed(frame[W]) \cup {frame[W].cur})

\* The replayer starts applying events[pos] in this step.
WorkerApplies == pc[W] = "apply" /\ pc'[W] # "apply"

IsStationUpdate(e) ==
    DictGet(e.entity.type) = StationType /\ DictGet(e.operation) = "update"

IsSessionUpsert(e) ==
    DictGet(e.entity.type) = SessionType /\ DictGet(e.operation) = "upsert"

\* The attribute is an object that carries a non-null value.
HasValue(entity, a) ==
    /\ a \in DOMAIN entity.attrs
    /\ entity.attrs[a].kind = "dict"
    /\ "value" \in DOMAIN entity.attrs[a]
    /\ entity.attrs[a].value # None

NamesStation(entity) == entity.id \notin {NoKey, None, ""}

RecognizedFields == {"available_capacity", "status", "instantaneous_power", "queue_length"}

\* A recognized field of a stored station differs after the step.
FieldChanged ==
    \E id \in DOMAIN stations, f \in RecognizedFields :
        stations'[id].fields[f] # stations[id].fields[f]

StationUpdateEmitted(c, f) == c.bcasts = 1 /\ f.msg.type = "station_update"

C5_SessionUpsertWritesAndBroadcasts ==
    IsSessionUpsert(call[W].event) =>
        /\ call[W].writes = 1
        /\ call[W].bcasts = 1
        /\ frame[W].msg.type = "session_upsert"

\* C6: once it is looping the replayer never terminates.
C6_ReplayerNeverTerminates == pc[W] # "crashed"

\* C7: sends that fail never propagate out of broadcast: the call of
\* apply_realtime_event whose broadcast had failing sends completes normally and
\* the replayer goes to its sleep, never to a crash.
C7_SendFailuresStayInBroadcast ==
    LET f == frame[W]
    IN  f.stale # <<>> =>
          /\ pc[W] \in {"send", "sleep"}
          /\ ~call[W].raised
          /\ f.done => pc[W] = "sleep"

C7_Witness ==
    /\ frame[W].done
    /\ Len(frame[W].stale) > 1
    /\ pc[W] = "sleep"

\* C8: the replayer applies the events in the order of the file, cyclically:
\* the event it is about to apply is the first one at the start and otherwise
\* the successor (the first after the last) of the one applied last, and by then
\* the store write and the broadcast of that one are over and the delay was taken.
C8_EventsInCyclicOrder ==
    /\ pc[W] = "apply" =>
          IF hist.last = 0 THEN pos = 1
          ELSE /\ pos = (hist.last % Len(events)) + 1
               /\ hist.slept
               /\ frame[W].cur = NoWs
               /\ call[W] = NoCall
    /\ pc[W] \in {"send", "sleep"} => pos = hist.last /\ ~hist.slept

C8_Witness ==
    /\ pc[W] = "apply"
    /\ Len(events) > 1
    /\ hist.last = Len(events)
    /\ pos = 1

\* Only availableCapacity is present, with a non-null value, for a stored station.
OnlyAvailable(e) ==
    /\ IsStationUpdate(e)
    /\ DOMAIN e.entity.attrs = {"availableCapacity"}
    /\ HasValue(e.entity, "availableCapacity")
    /\ e.entity.id \in DOMAIN stations

C10_NoValueNoWriteNoBroadcast ==
    [][(/\ WorkerApplies
        /\ IsStationUpdate(events[pos])
        /\ \A a \in RecognizedAttrs : ~HasValue(events[pos].entity, a)) =>
          /\ stations' = stations
          /\ sessions' = sessions
          /\ call'[W].writes = 0
          /\ call'[W].bcasts = 0
          /\ frame'[W] = NoFrame
          /\ pc'[W] = "sleep"]_vars

\* An observedAt is present, the value is null: nothing was written or sent.
C10_Witness ==
    /\ call[W].event = Event("update", Entity("st1", StationType,
                                              "availableCapacity" :> PropAt(None, "t1")))
    /\ call[W].writes = 0
    /\ call[W].bcasts = 0
    /\ pc[W] = "sleep"

\* The WebSockets task p's broadcast has attempted so far, in order, the one
\* whose send it is awaiting included.
Attempts(f) == f.sent \o f.stale \o (IF f.cur = NoWs THEN <<>> ELSE <<f.cur>>)

NoRepeat(seq) == \A a, b \in DOMAIN seq : a # b => seq[a] # seq[b]

\* C11: within one call of broadcast no subscriber is sent the message more
\* than once, also when connects and disconnects interleave with the call.
C11_AtMostOncePerSubscriber == NoRepeat(Attempts(frame[W]))

\* A finished broadcast with which a connect or disconnect interleaved and
\* which attempted two subscribers or more.
C11_Witness ==
    /\ frame[W].done
    /\ ~frame[W].quiet
    /\ Len(Attempts(frame[W])) >= 2

\* C12: disconnect is idempotent: for an unregistered connection the registry
\* stays as it is, a second disconnect of the same connection changes nothing
\* more, and the other connections stay registered in their order.
C12_DisconnectIdempotent ==
    \A w \in WebSockets :
        LET once == disconnect(active_connections, w)
        IN  /\ w \notin Range(active_connections) => once = active_connections
            /\ disconnect(once, w) = once
            /\ once = SelectSeq(active_connections, LAMBDA x : x # w)

\* The broadcast removed a stale WebSocket, and then its handler disconnected
\* it once more while another connection was registered.
C12_Witness ==
    \E w \in WebSockets :
        /\ w \in frame[W].removed
        /\ frame[W].done
        /\ conn[w] = "closed"
        /\ active_connections # <<>>

----------------------------------------------------------------------------
(* The NGSI-LD entity API: POST, GET and DELETE /ngsi-ld/v1/entities        *)

SensorType == "Sensor"

\* etl.import_sensor_entity: [raised, doc]; name and description are Optional.
import_sensor_entity(entity) ==
    [raised |-> entity.id = NoKey,
     doc |-> [fields |-> [f \in {"name", "description"} |->
                            IF f = "name" THEN get_property_value(entity, "name", None)
                            ELSE get_property_value(entity, "description", None)],
              raw |-> entity]]

\* A stored document whose raw is no dict.
RawNone == [kind |-> "None"]

\* isinstance(raw, dict)
IsEntity(raw) == "attrs" \in DOMAIN raw

\* A top-level value of an entity that is no attribute object.
Flat(v) == [kind |-> "scalar", is |-> v]

\* REALTIME_CONTEXT, which get_ngsi_context_value returns.
GlobalContext == "global-context"

\* The items of a stored document: the store key _id, the model's id, the
\* flat fields and raw.
DocItems(id, doc) ==
    ("_id" :> Flat(id)) @@ ("id" :> Flat(id)) @@ ("raw" :> Flat(doc.raw))
    @@ [f \in DOMAIN doc.fields |-> Flat(doc.fields[f])]

\* {k: v for k, v in doc.items() if k not in {"_id"}}: the flat fields under
\* their own names and the raw key itself; no type.
FlatEntity(id, doc) ==
    LET items == DocItems(id, doc)
    IN  Entity(items["id"].is, NoKey, [k \in DOMAIN items \ {"_id", "id"} |-> items[k]])

\* Mutant of doc_to_ngsi_entity: the global context replaces the entity's own.
DocToNgsiOverwritingContext(id, doc) ==
    LET entity == IF IsEntity(doc.raw) THEN doc.raw ELSE FlatEntity(id, doc)
    IN  [entity EXCEPT !.attrs = ("@context" :> Flat(GlobalContext)) @@ @]

\* main._doc_to_ngsi_entity
doc_to_ngsi_entity(id, doc) ==
    LET entity == IF IsEntity(doc.raw) THEN doc.raw ELSE FlatEntity(id, doc)
    IN  IF "@context" \in DOMAIN entity.attrs THEN entity
        ELSE [entity EXCEPT !.attrs = ("@context" :> Flat(GlobalContext)) @@ @]

\* The collection ngsi_upsert_entity imports an entity of this type into.
Importer(entity) ==
    CASE entity.type = StationType -> import_station_entity(entity)
      [] entity.type = SessionType -> import_session_entity(entity)
      [] entity.type = SensorType -> import_sensor_entity(entity)

\* The bad requests of ngsi_upsert_entity: no type, no id, unsupported type.
UpsertRejected(entity) ==
    \/ Falsy(DictGet(entity.type))
    \/ Falsy(DictGet(entity.id))
    \/ entity.type \notin {StationType, SessionType, SensorType}

\* POST /ngsi-ld/v1/entities.  An exception of the import is a 500.
ngsi_upsert_entity(entity) ==
    /\ UNCHANGED <<active_connections, conn, peer, events, pos, pc, frame, call, hist>>
    /\ UNCHANGED authVars
    /\ IF UpsertRejected(entity) \/ Importer(entity).raised
       THEN /\ http' = [op |-> "upsert", entity |-> entity,
                        status |-> IF UpsertRejected(entity) THEN "400" ELSE "500"]
            /\ UNCHANGED <<stations, sessions, sensors>>
       ELSE LET doc == Importer(entity).doc
            IN  /\ stations' = IF entity.type = StationType
                               THEN replace_one(stations, entity.id, doc) ELSE stations
                /\ sessions' = IF entity.type = SessionType
                               THEN replace_one(sessions, entity.id, doc) ELSE sessions
                /\ sensors' = IF entity.type = SensorType
                              THEN replace_one(sensors, entity.id, doc) ELSE sensors
                /\ http' = [op |-> "upsert", entity |-> entity, status |-> "201",
                            doc |-> doc, body |-> doc_to_ngsi_entity(entity.id, doc)]

\* The first of the collections stations, sessions, sensors that holds the id.
FindEntity(entity_id) ==
    IF entity_id \in DOMAIN stations THEN <<stations[entity_id]>>
    ELSE IF entity_id \in DOMAIN sessions THEN <<sessions[entity_id]>>
    ELSE IF entity_id \in DOMAIN sensors THEN <<sensors[entity_id]>>
    ELSE <<>>

\* GET /ngsi-ld/v1/entities/{entity_id}
ngsi_get_entity(entity_id) ==
    /\ UNCHANGED <<active_connections, conn, peer, events, pos, pc, frame, call, hist>>
    /\ UNCHANGED <<stations, sessions, sensors, users, pending, now, threads>>
    /\ http' = IF FindEntity(entity_id) = <<>>
               THEN [op |-> "get", id |-> entity_id, status |-> "404"]
               ELSE [op |-> "get", id |-> entity_id, status |-> "200",
                     doc |-> FindEntity(entity_id)[1],
                     body |-> doc_to_ngsi_entity(entity_id, FindEntity(entity_id)[1])]

\* A bearer token: a JWT signed for the user named sub, or one jwt.decode rejects.
Token(sub) == [valid |-> TRUE, sub |-> sub]
BadToken == [valid |-> FALSE, sub |-> NoKey]

\* auth.get_current_user: 401 unless the token decodes to a stored user.
\* The status the dependency fails with, or "ok".
get_current_user(token) ==
    IF ~token.valid \/ FindUsername(users, token.sub) = None THEN "401" ELSE "ok"

\* auth.get_current_active_user: 403 for a locked account.
get_current_active_user(token) ==
    IF get_current_user(token) # "ok" THEN get_current_user(token)
    ELSE IF users[FindUsername(users, token.sub)].is_locked THEN "403" ELSE "ok"

\* Mutant of get_current_admin: every active user passes.
GetCurrentAdminAnyRole(token) == get_current_active_user(token)

\* auth.get_current_admin: 403 unless the role is admin.
get_current_admin(token) ==
    IF get_current_active_user(token) # "ok" THEN get_current_active_user(token)
    ELSE IF users[FindUsername(users, token.sub)].role # "admin" THEN "403" ELSE "ok"

\* collection.delete_one({"_id": id})
delete_one(coll, id) == [k \in DOMAIN coll \ {id} |-> coll[k]]

\* DELETE /ngsi-ld/v1/entities/{entity_id}: the first of stations, sessions,
\* sensors that holds the id loses it.
ngsi_delete_entity(token, entity_id) ==
    /\ UNCHANGED <<active_connections, conn, peer, events, pos, pc, frame, call, hist>>
    /\ UNCHANGED authVars
    /\ IF get_current_admin(token) # "ok"
       THEN /\ http' = [op |-> "delete", token |-> token, id |-> entity_id,
                        status |-> get_current_admin(token)]
            /\ UNCHANGED <<stations, sessions, sensors>>
       ELSE /\ stations' = delete_one(stations, entity_id)
            /\ sessions' = IF entity_id \in DOMAIN stations THEN sessions
                           ELSE delete_one(sessions, entity_id)
            /\ sensors' = IF entity_id \in DOMAIN stations \cup DOMAIN sessions
                          THEN sensors ELSE delete_one(sensors, entity_id)
            /\ http' = [op |-> "delete", token |-> token, id |-> entity_id,
                        status |-> IF FindEntity(entity_id) = <<>> THEN "404" ELSE "200"]

----------------------------------------------------------------------------
(* The specification of the entity API: the requests of its clients, the   *)
(* replayer and the PATCH handler on one store, with no subscriber.         *)

\* The dicts with the key in one of the shapes, and the dict without it.
Opt(key, shapes) == {EmptyDict} \cup {key :> x : x \in shapes}

UpsertStationAttrs ==
    {("status" :> Prop("busy")) @@ n @@ a @@ l @@ c :
        n \in Opt("name", {Prop("n")}),
        a \in Opt("availableCapacity", {Prop("5"), Scalar}),
        l \in Opt("location", {Prop(Point(<<0, 3>>)), Scalar}),
        c \in Opt("@context", {Flat("own-context")})}

UpsertSessionAttrs ==
    {FullSession, Without(FullSession, {"startDateTime"}),
     Without(FullSession, {"vehicleType"}),
     FullSession @@ ("@context" :> Flat("own-context"))}

UpsertEntities ==
    {Entity("st3", StationType, a) : a \in UpsertStationAttrs}
    \cup {Entity("se1", SessionType, a) : a \in UpsertSessionAttrs}
    \cup {Entity("sn1", SensorType, a) : a \in Opt("name", {Prop("s"), Scalar})}
    \cup {Entity("st3", NoKey, EmptyDict), Entity(NoKey, StationType, EmptyDict),
          Entity("b1", "Building", EmptyDict)}

EntityIds == {"st1", "st3", "se1", "sn1", "b1"}

InitNgsi == InitWith({<<EvAvail>>})

NextNgsi ==
    \/ \E entity \in UpsertEntities : ngsi_upsert_entity(entity)
    \/ \E id \in EntityIds : ngsi_get_entity(id)

SpecNgsi == InitNgsi /\ [][NextNgsi]_vars

----------------------------------------------------------------------------
(* The specification of the writers of the store: every operation that     *)
(* writes to a collection of entities, with no subscriber.                  *)

Tokens == {Token("admin"), Token("citizen1"), Token("locked"), BadToken}

\* One well-formed entity of each type.
WriterEntities ==
    {Entity("st3", StationType, ("status" :> Prop("busy")) @@ ("name" :> Prop("n"))),
     Entity("se1", SessionType, FullSession),
     Entity("sn1", SensorType, EmptyDict)}

WriterIds == {"st1", "st3", "se1", "sn1"}

InitWriters == InitWith({<<EvAvail>>})

NextWriters ==
    \/ \E entity \in WriterEntities : ngsi_upsert_entity(entity)
    \/ \E token \in Tokens, id \in WriterIds : ngsi_delete_entity(token, id)
    \/ \E id \in TaskTargets, attrs \in TaskPatches : PatchRequest(id, attrs)
    \/ WorkerStart
    \/ WorkerApply
    \/ WorkerSleep

SpecWriters == InitWriters /\ [][NextWriters]_vars

----------------------------------------------------------------------------
(* Properties of the entity API *)

\* The stored document with its raw representation taken away.
WithoutRaw(doc) == [doc EXCEPT !.raw = RawNone]

\* Entity r has the identity, the type and the attribute values of entity e.
Preserves(e, r) ==
    /\ r.id = e.id
    /\ r.type = e.type
    /\ \A a \in DOMAIN e.attrs :
          (IsDict(e.attrs[a]) /\ "value" \in DOMAIN e.attrs[a])
          => get_property_value(r, a, None) = e.attrs[a].value

UpsertStored == http.op = "upsert" /\ http.status = "201"

\* C13: the entity an upsert stored comes back from the stored document with
\* its identity, its type and its attribute values, from the retained raw
\* representation and also from the flat fields of a document without raw.
C13_RoundTripPreserves ==
    UpsertStored =>
        /\ Preserves(http.entity, http.body)
        /\ Preserves(http.entity,
                     doc_to_ngsi_entity(http.entity.id, WithoutRaw(http.doc)))

\* C14: an upsert of an entity with an id and a supported type never fails on
\* the attributes it lacks or that are no attribute objects: the import
\* completes with a stored document; get_property_value gives the value of
\* an attribute object and the default otherwise.
C14_ImportNeverFails ==
    (http.op = "upsert" /\ ~UpsertRejected(http.entity)) =>
        /\ http.status = "201"
        /\ FindEntity(http.entity.id) # <<>>
        /\ \A a \in DOMAIN http.entity.attrs :
              get_property_value(http.entity, a, None) =
                 IF IsDict(http.entity.attrs[a]) /\ "value" \in DOMAIN http.entity.attrs[a]
                 THEN http.entity.attrs[a].value ELSE None

\* What the reverse mapping must give for the document: raw as it is, with
\* the global context added when it has none of its own; without raw, the
\* flat fields and not the store key.
ReverseMapped(id, doc, body) ==
    IF IsEntity(doc.raw)
    THEN /\ body.id = doc.raw.id
         /\ body.type = doc.raw.type
         /\ DOMAIN body.attrs = DOMAIN doc.raw.attrs \cup {"@context"}
         /\ \A a \in DOMAIN doc.raw.attrs : body.attrs[a] = doc.raw.attrs[a]
         /\ "@context" \notin DOMAIN doc.raw.attrs
            => body.attrs["@context"] = Flat(GlobalContext)
    ELSE /\ body.id = id
         /\ "_id" \notin DOMAIN body.attrs
         /\ \A f \in DOMAIN doc.fields : body.attrs[f] = Flat(doc.fields[f])
         /\ body.attrs["@context"] = Flat(GlobalContext)

\* C15: the entity returned for a stored document is its retained raw
\* representation unchanged, with the global context added if and only if
\* it has no @context of its own; for a document without raw it is built
\* from the flat fields without the store key.
C15_ReverseMapping ==
    (http.op = "get" /\ http.status = "200") =>
        /\ ReverseMapped(http.id, http.doc, http.body)
        /\ ReverseMapped(http.id, WithoutRaw(http.doc),
                         doc_to_ngsi_entity(http.id, WithoutRaw(http.doc)))

\* An entity with a @context of its own and one without have been returned.
C15_Witness ==
    /\ http.op = "get"
    /\ http.status = "200"
    /\ "@context" \in DOMAIN http.doc.raw.attrs
    /\ \E id \in DOMAIN stations : "@context" \notin DOMAIN stations[id].raw.attrs

----------------------------------------------------------------------------
(* GET /stations/near *)

Abs(x) == IF x < 0 THEN -x ELSE x
Min(a, b) == IF a < b THEN a ELSE b

\* main._haversine_km for two points on one meridian (lon1 = lon2), where it
\* is r * |lat2 - lat1| exactly; a latitude is counted in the unit that makes
\* this kilometres.
haversine_km(lat1, lon1, lat2, lon2) == Abs(lat2 - lat1)

\* Mutant of Near: a station at exactly radius_km is left out.
NearStrictly(doc, lat, lng, radius_km) ==
    LET coordinates == doc.fields["location"]
    IN  /\ Len(coordinates) = 2
        /\ haversine_km(lat, lng, coordinates[2], coordinates[1]) < radius_km

\* The test of the loop of get_stations_near: the location has exactly two
\* coordinates, [lon2, lat2], and the distance is at most radius_km.
Near(doc, lat, lng, radius_km) ==
    LET coordinates == doc.fields["location"]
    IN  /\ Len(coordinates) = 2
        /\ haversine_km(lat, lng, coordinates[2], coordinates[1]) <= radius_km

\* The orders in which a cursor may return the documents of a collection.
ScanOrders(coll) ==
    {o \in [1..Cardinality(DOMAIN coll) -> DOMAIN coll] :
        \A a, b \in DOMAIN o : a # b => o[a] # o[b]}

\* get_stations_near: candidates in scan order, cut at limit.
get_stations_near(lat, lng, radius_km, limit, scan) ==
    LET candidates == SelectSeq(scan, LAMBDA id : Near(stations[id], lat, lng, radius_km))
    IN  /\ http' = [op |-> "near", lat |-> lat, lng |-> lng, radius_km |-> radius_km,
                    limit |-> limit, scan |-> scan,
                    body |-> SubSeq(candidates, 1, Min(limit, Len(candidates)))]
        /\ UNCHANGED <<active_connections, conn, peer, events, pos, pc, frame, call, hist>>
        /\ UNCHANGED <<stations, sessions, sensors, users, pending, now, threads>>

\* Stations on the meridian of the reference points, and some whose location
\* has one coordinate or three.
NearEntities ==
    {Entity(id, StationType,
            ("status" :> Prop("busy")) @@ ("name" :> Prop("n"))
            @@ ("location" :> Prop(Point(c)))) :
        id \in {"st3", "st4"}, c \in {<<0, 3>>, <<0, 1>>, <<4>>, <<0, 0, 0>>}}

InitNear == InitWith({<<EvAvail>>})

NextNear ==
    \/ \E entity \in NearEntities : ngsi_upsert_entity(entity)
    \/ \E lat \in {0, 2}, radius_km \in {1, 3}, limit \in {1, 2} :
          \E scan \in ScanOrders(stations) :
             get_stations_near(lat, 0, radius_km, limit, scan)

SpecNear == InitNear /\ [][NextNear]_vars

\* The distance of the station from the reference point of the request, by
\* its stored coordinates [longitude, latitude].
WithinRadius(id) ==
    /\ Len(stations[id].fields["location"]) = 2
    /\ Abs(stations[id].fields["location"][2] - http.lat) <= http.radius_km

\* The number of stations within the radius up to position k of the scan.
RankInScan(k) == Cardinality({j \in 1..k : WithinRadius(http.scan[j])})

\* C16: the proximity search returns a station if and only if it is within
\* radius_km of the reference point and among the first `limit` such stations
\* of the scan, in scan order; a station whose location has not exactly two
\* coordinates is never returned.
C16_NearReturnsWithinRadius ==
    http.op = "near" =>
        /\ \A k \in DOMAIN http.scan :
               (\E j \in DOMAIN http.body : http.body[j] = http.scan[k])
               <=> (WithinRadius(http.scan[k]) /\ RankInScan(k) <= http.limit)
        /\ \A i, j \in DOMAIN http.body :
               i < j => \E a, b \in DOMAIN http.scan :
                          a < b /\ http.scan[a] = http.body[i] /\ http.scan[b] = http.body[j]
        /\ \A j \in DOMAIN http.body : Len(stations[http.body[j]].fields["location"]) = 2

\* A search that returned a station at exactly radius_km, cut another one off
\* at the limit, and passed over one beyond the radius and one whose
\* location has not two coordinates.
C16_Witness ==
    /\ http.op = "near"
    /\ Len(http.body) = http.limit
    /\ \E j \in DOMAIN http.body :
          Abs(stations[http.body[j]].fields["location"][2] - http.lat) = http.radius_km
    /\ \E id \in DOMAIN stations : WithinRadius(id) /\ id \notin Range(http.body)
    /\ \E id \in DOMAIN stations :
          /\ Len(stations[id].fields["location"]) = 2
          /\ ~WithinRadius(id)
    /\ \E id \in DOMAIN stations : Len(stations[id].fields["location"]) # 2

----------------------------------------------------------------------------
(* Registration: POST /auth/register and POST /auth/register/verify *)

\* The clock advances by TickSeconds at a time, MaxTicks times at most.
TickSeconds == 200
MaxTicks == 2

OTP_EXPIRATION_SECONDS == 300

\* str.lower() on the e-mail addresses of the model.
Lower(email) == IF email = "New@x" THEN "new@x" ELSE email

\* re.compile(f"^{re.escape(email)}$", re.IGNORECASE) matching a stored address
EmailMatches(email, stored) == Lower(email) = Lower(stored)

\* main._ensure_email_available: the detail of its 400, or "ok".  find_one
\* gives one of the pending registrations with the address, if any.
ensure_email_available(us, pd, email, username) ==
    LET matching == {u \in DOMAIN pd : EmailMatches(email, pd[u].email)}
    IN  IF \E u \in DOMAIN us : EmailMatches(email, us[u].email) THEN "email exists"
        ELSE IF matching # {} /\ (CHOOSE u \in matching : TRUE) # username
        THEN "email pending"
        ELSE "ok"

\* The checks of register before it writes: the detail of its 400, or "ok".
RegisterCheck(us, pd, username, email, role) ==
    IF FindUsername(us, username) # None THEN "username exists"
    ELSE IF role \notin {"citizen", "manager", "admin"} THEN "bad role"
    ELSE ensure_email_available(us, pd, email, username)

\* The document _store_pending_registration sets for the username.
PendingRecord(email, role, otp, at) ==
    [email |-> email, role |-> role, otp |-> otp, created_at |-> at,
     expires_at |-> at + OTP_EXPIRATION_SECONDS]

\* Mutant of store_pending_registration: the registration is not kept.
StorePendingDropped(pd, username, email, role, otp, at) == delete_one(pd, username)

\* main._store_pending_registration: update_one by username, upsert=True.
store_pending_registration(pd, username, email, role, otp, at) ==
    replace_one(pd, username, PendingRecord(email, role, otp, at))

\* POST /auth/register: otp is what _generate_otp drew, sent is what
\* send_otp_email returned.
register(username, email, role, otp, sent) ==
    LET check == RegisterCheck(users, pending, username, email, role)
        retry == /\ http.op = "register"
                 /\ http.detail = "otp not sent"
                 /\ http.username = username
                 /\ http.email = email
    IN  /\ pending' = IF check = "ok"
                      THEN store_pending_registration(pending, username, email, role,
                                                      otp, now)
                      ELSE pending
        /\ http' = [op |-> "register", username |-> username, email |-> email,
                    role |-> role, otp |-> otp, at |-> now, retry |-> retry,
                    status |-> IF check # "ok" THEN "400"
                               ELSE IF sent THEN "200" ELSE "500",
                    detail |-> IF check # "ok" THEN check
                               ELSE IF sent THEN "otp sent" ELSE "otp not sent"]
        /\ UNCHANGED <<users, now, threads>>
        /\ UNCHANGED <<active_connections, conn, peer, events, pos, pc, frame, call, hist>>
        /\ UNCHANGED <<stations, sessions, sensors>>

\* Mutant of validate_pending_registration: the OTP is not compared.
ValidatePendingAnyOtp(username, otp) ==
    IF username \notin DOMAIN pending THEN "otp invalid"
    ELSE IF pending[username].expires_at < now THEN "otp expired"
    ELSE "ok"

\* main._validate_pending_registration: the detail of its 400, or "ok".
validate_pending_registration(username, otp) ==
    IF username \notin DOMAIN pending \/ pending[username].otp # otp THEN "otp invalid"
    ELSE IF pending[username].expires_at < now THEN "otp expired"
    ELSE "ok"

\* main._finalize_registration: the detail of its 400, or "ok".
finalize_registration(username) ==
    IF FindUsername(users, username) # None THEN "username exists"
    ELSE ensure_email_available(users, pending, pending[username].email, username)

\* users_collection.insert_one(doc) of a document without _id.
insert_one(coll, doc) ==
    replace_one(coll, CHOOSE i \in ObjectIds : i \notin DOMAIN coll, doc)

\* POST /auth/register/verify
verify_registration(username, otp) ==
    LET valid == validate_pending_registration(username, otp)
        final == IF valid = "ok" THEN finalize_registration(username) ELSE valid
    IN  /\ ObjectIds \ DOMAIN users # {}
        /\ users' = IF final = "ok"
                    THEN insert_one(users, User(username, pending[username].email,
                                                pending[username].role, FALSE))
                    ELSE users
        /\ pending' = IF final = "ok" \/ valid = "otp expired"
                      THEN delete_one(pending, username) ELSE pending
        /\ http' = [op |-> "verify", username |-> username, otp |-> otp,
                    status |-> IF final = "ok" THEN "200" ELSE "400", detail |-> final]
        /\ UNCHANGED <<now, threads>>
        /\ UNCHANGED <<active_connections, conn, peer, events, pos, pc, frame, call, hist>>
        /\ UNCHANGED <<stations, sessions, sensors>>

\* Time passes.
Tick ==
    /\ now < MaxTicks * TickSeconds
    /\ now' = now + TickSeconds
    /\ UNCHANGED <<users, pending, http, threads, stations, sessions, sensors>>
    /\ UNCHANGED <<active_connections, conn, peer, events, pos, pc, frame, call, hist>>

Usernames == {"new", "other", "citizen1"}
Emails == {"new@x", "New@x", "citizen1@x"}
Roles == {"citizen", "root"}
Otps == {"111111", "222222"}

InitAuth == InitWith({<<EvAvail>>})

NextAuth ==
    \/ \E username \in Usernames, email \in Emails, role \in Roles, otp \in Otps,
          sent \in BOOLEAN : register(username, email, role, otp, sent)
    \/ \E username \in Usernames, otp \in Otps : verify_registration(username, otp)
    \/ Tick

SpecAuth == InitAuth /\ [][NextAuth]_vars

\* The last request was a register whose e-mail could not be sent.
DispatchFailed(h) == h.op = "register" /\ h.detail = "otp not sent"

\* C17: when the e-mail dispatch fails during register, the caller gets a
\* server error, no user account is created, and the pending registration
\* written for the username, with the generated OTP and its expiry, is
\* retained, so that a later register for the same username and e-mail is
\* accepted and replaces it.
C17_DispatchFailureKeepsPending ==
    [][/\ DispatchFailed(http') =>
            /\ http'.status = "500"
            /\ users' = users
            /\ FindUsername(users', http'.username) = None
            /\ http'.username \in DOMAIN pending'
            /\ pending'[http'.username] =
                  PendingRecord(http'.email, http'.role, http'.otp, http'.at)
            /\ RegisterCheck(users', pending', http'.username, http'.email,
                             http'.role) = "ok"
       /\ (http'.op = "register" /\ http'.retry /\ http'.role = http.role /\ http' # http) =>
            /\ http'.status \in {"200", "500"}
            /\ http'.username \in DOMAIN pending'
            /\ pending'[http'.username] =
                  PendingRecord(http'.email, http'.role, http'.otp, http'.at)
      ]_vars

\* A register failed on the dispatch, and the same username and e-mail
\* registered again later, with another OTP, and the e-mail went out.
C17_Witness ==
    /\ http.op = "register"
    /\ http.retry
    /\ http.status = "200"
    /\ http.at > 0
    /\ http.username \in DOMAIN pending
    /\ pending[http.username].otp = http.otp
    /\ pending[http.username].created_at = http.at

----------------------------------------------------------------------------
(* GET /citizen/route and the routing service (OSRM) it asks *)

\* A JSON number: json.loads reads 1e999 as the float inf.
Num(n) == [finite |-> TRUE, n |-> n]
Infinity == [finite |-> FALSE]

\* A route of the reply: a dict with the keys it has.  The geometry is a
\* dict with coordinates, or null.
Geometry(coordinates) == [isdict |-> TRUE, coordinates |-> coordinates]
NullGeometry == [isdict |-> FALSE]

\* What client.get and response.json() give: a network error, an error
\* status, a body that is no JSON, or the JSON document.
OsrmFailed(how) == [net |-> how]
OsrmJson(code, routes) == [net |-> "ok", code |-> code, routes |-> routes]

\* The straight line from the start to the station.
StraightLine(from_lat, from_lng, to_lat, to_lon) ==
    <<<<from_lng, from_lat>>, <<to_lon, to_lat>>>>

\* The except branch of get_route: haversine distance at 40 km/h.
Fallback(from_lat, from_lng, to_lat, to_lon) ==
    LET distance_km == haversine_km(from_lat, from_lng, to_lat, to_lon)
    IN  [distance_km |-> Num(distance_km),
         estimated_time_minutes |-> Num((distance_km * 60) \div 40),
         route_coordinates |-> StraightLine(from_lat, from_lng, to_lat, to_lon),
         osrm_used |-> FALSE]

\* The try block of get_route raises: the request failed, the code is not
\* Ok, there is no route, the route lacks distance or duration, or its
\* geometry is no dict.
OsrmRaises(reply) ==
    \/ reply.net # "ok"
    \/ reply.code # "Ok"
    \/ reply.routes = <<>>
    \/ "distance" \notin DOMAIN reply.routes[1]
    \/ "duration" \notin DOMAIN reply.routes[1]
    \/ ("geometry" \in DOMAIN reply.routes[1] /\ ~reply.routes[1].geometry.isdict)

\* distance_meters / 1000.0 and duration_seconds / 60.0
Scaled(x, by) == IF x.finite THEN Num(x.n \div by) ELSE Infinity

\* The dict get_route returns.
RouteResult(from_lat, from_lng, to_lat, to_lon, reply) ==
    IF OsrmRaises(reply) THEN Fallback(from_lat, from_lng, to_lat, to_lon)
    ELSE LET route == reply.routes[1]
             geometry == GetOr(route, "geometry", Geometry(<<>>))
             route_coordinates == GetOr(geometry, "coordinates", <<>>)
         IN  [distance_km |-> Scaled(route.distance, 1000),
              estimated_time_minutes |-> Scaled(route.duration, 60),
              route_coordinates |->
                 IF route_coordinates = <<>>
                 THEN StraightLine(from_lat, from_lng, to_lat, to_lon)
                 ELSE route_coordinates,
              osrm_used |-> route_coordinates # <<>>]

\* The JSON response renders the returned dict with allow_nan=False: a
\* float that is not finite raises, which is a 500.
Renders(result) == result.distance_km.finite /\ result.estimated_time_minutes.finite

\* GET /citizen/route
get_route(from_lat, from_lng, to_station_id, reply) ==
    /\ UNCHANGED <<active_connections, conn, peer, events, pos, pc, frame, call, hist>>
    /\ UNCHANGED <<stations, sessions, sensors, users, pending, now, threads>>
    /\ LET request == [op |-> "route", from_lat |-> from_lat, from_lng |-> from_lng,
                       to_station_id |-> to_station_id, reply |-> reply]
       IN  IF to_station_id \notin DOMAIN stations
           THEN http' = request @@ [status |-> "404"]
           ELSE LET coordinates == stations[to_station_id].fields["location"]
                    result == RouteResult(from_lat, from_lng, coordinates[2],
                                          coordinates[1], reply)
                IN  IF Len(coordinates) # 2
                    THEN http' = request @@ [status |-> "400"]
                    ELSE IF ~Renders(result)
                    THEN http' = request @@ [status |-> "500"]
                    ELSE http' = request @@ [status |-> "200", body |-> result]

\* The routes a reply may carry.
OsrmRoutes ==
    {[distance |-> Num(3000), duration |-> Num(240), geometry |-> Geometry(<<<<0, 1>>>>)],
     [distance |-> Num(3000), duration |-> Num(240), geometry |-> Geometry(<<>>)],
     [distance |-> Num(3000), duration |-> Num(240), geometry |-> NullGeometry],
     [distance |-> Num(3000), duration |-> Num(240)],
     [duration |-> Num(240), geometry |-> Geometry(<<<<0, 1>>>>)],
     [distance |-> Num(3000), geometry |-> Geometry(<<<<0, 1>>>>)],
     [distance |-> Infinity, duration |-> Num(240), geometry |-> Geometry(<<<<0, 1>>>>)]}

OsrmReplies ==
    {OsrmFailed("network error"), OsrmFailed("error status"), OsrmFailed("not json"),
     OsrmJson("NoRoute", <<>>), OsrmJson("Ok", <<>>)}
    \cup {OsrmJson("Ok", <<r>>) : r \in OsrmRoutes}

InitRoute == InitWith({<<EvAvail>>})

NextRoute ==
    \/ \E entity \in NearEntities : ngsi_upsert_entity(entity)
    \/ \E from_lat \in {0, 2}, id \in {"st1", "st2", "st3", "st9"}, reply \in OsrmReplies :
          get_route(from_lat, 0, id, reply)

SpecRoute == InitRoute /\ [][NextRoute]_vars

\* The collaborator returned an Ok route with a geometry that is not empty.
OkRoute(reply) ==
    /\ ~OsrmRaises(reply)
    /\ "geometry" \in DOMAIN reply.routes[1]
    /\ reply.routes[1].geometry.coordinates # <<>>

\* The request named a stored station whose location has two coordinates.
RouteToValidStation ==
    /\ http.op = "route"
    /\ http.to_station_id \in DOMAIN stations
    /\ Len(stations[http.to_station_id].fields["location"]) = 2

\* C18: for a destination station that exists and has a two-coordinate
\* location the route request succeeds whatever the routing service does;
\* when the request to it fails the result is the straight-line fallback
\* with osrm_used false, and osrm_used is true only for an Ok route with a
\* geometry that is not empty.
C18_RouteAlwaysSucceeds ==
    RouteToValidStation =>
        /\ http.status = "200"
        /\ http.body.osrm_used <=> OkRoute(http.reply)
        /\ OsrmRaises(http.reply) =>
              http.body = Fallback(http.from_lat, http.from_lng,
                                   stations[http.to_station_id].fields["location"][2],
                                   stations[http.to_station_id].fields["location"][1])

\* The user the token of the last request names is stored, unlocked and admin.
ByActiveAdmin(h) ==
    /\ h.token.valid
    /\ FindUsername(users, h.token.sub) # None
    /\ users[FindUsername(users, h.token.sub)].role = "admin"
    /\ ~users[FindUsername(users, h.token.sub)].is_locked

\* C19: a station document leaves the store only by the delete operation of
\* an authenticated, unlocked admin: no replayer event, entity upsert or
\* attribute update removes a station.
C19_OnlyAdminDeleteRemovesStation ==
    [][\A id \in DOMAIN stations :
          id \notin DOMAIN stations' =>
             /\ http'.op = "delete"
             /\ http'.id = id
             /\ http'.status = "200"
             /\ ByActiveAdmin(http')]_vars

\* An admin deleted the seeded station after the replayer had updated it.
C19_Witness ==
    /\ http.op = "delete"
    /\ http.status = "200"
    /\ http.id = "st1"
    /\ "st1" \notin DOMAIN stations
    /\ "st3" \in DOMAIN stations
    /\ hist.last > 0

----------------------------------------------------------------------------
(* GET /citizens/{user_id}/sessions and /citizens/{user_id}/sessions/stats *)

\* The citizens collection, which no handler writes.
Citizens == {"citizen_user_1"}

\* A datetime query parameter: absent, or an instant that is timezone-aware
\* or naive.
NoDate == [given |-> FALSE]
Date(t, aware) == [given |-> TRUE, t |-> t, aware |-> aware]

\* start_date > end_date raises TypeError between an aware and a naive datetime.
CompareRaises(a, b) == a.aware # b.aware

\* The instant of a stored start_date_time.
TimeOf(iso) == IF iso = "t1" THEN 1 ELSE 2

\* Mutant of CitizenSessionsStatus: the citizen is looked up first.
CitizenSessionsStatusProfileFirst(user_id, start_date, end_date) ==
    IF user_id \notin Citizens THEN "404"
    ELSE IF ~(start_date.given /\ end_date.given) THEN "200"
    ELSE IF CompareRaises(start_date, end_date) THEN "500"
    ELSE IF start_date.t > end_date.t THEN "400"
    ELSE "200"

\* The status of both handlers: the date range is checked first, then
\* _get_citizen_profile_or_404.
CitizenSessionsStatus(user_id, start_date, end_date) ==
    IF start_date.given /\ end_date.given /\ CompareRaises(start_date, end_date)
    THEN "500"
    ELSE IF start_date.given /\ end_date.given /\ start_date.t > end_date.t THEN "400"
    ELSE IF user_id \notin Citizens THEN "404"
    ELSE "200"

\* The ids of the sessions the query of both handlers matches: user_id,
\* station_id if given, and _apply_citizen_time_filters on start_date_time.
\* (The sort, skip and limit of the listing are left out.)
CitizenSessions(user_id, station_id, start_date, end_date) ==
    {id \in DOMAIN sessions :
        /\ sessions[id].fields["user_id"] = user_id
        /\ station_id # None => sessions[id].fields["station_id"] = station_id
        /\ start_date.given => TimeOf(sessions[id].fields["start_date_time"]) >= start_date.t
        /\ end_date.given => TimeOf(sessions[id].fields["start_date_time"]) <= end_date.t}

CitizenRequest(op, user_id, station_id, start_date, end_date) ==
    LET request == [op |-> op, user_id |-> user_id, station_id |-> station_id,
                    start_date |-> start_date, end_date |-> end_date,
                    status |-> CitizenSessionsStatus(user_id, start_date, end_date)]
    IN  /\ http' = IF request.status = "200"
                   THEN request @@ [body |-> CitizenSessions(user_id, station_id,
                                                             start_date, end_date)]
                   ELSE request
        /\ UNCHANGED <<active_connections, conn, peer, events, pos, pc, frame, call, hist>>
        /\ UNCHANGED <<stations, sessions, sensors, users, pending, now, threads>>

\* main.list_citizen_sessions
list_citizen_sessions(user_id, station_id, start_date, end_date) ==
    CitizenRequest("citizen_sessions", user_id, station_id, start_date, end_date)

\* main.get_citizen_sessions_stats: the statistics of the matching sessions.
get_citizen_sessions_stats(user_id, station_id, start_date, end_date) ==
    CitizenRequest("citizen_stats", user_id, station_id, start_date, end_date)

Dates == {NoDate} \cup {Date(t, aware) : t \in {1, 2}, aware \in BOOLEAN}

InitCitizen == InitWith({<<EvAvail>>})

NextCitizen ==
    \/ \E entity \in WriterEntities : ngsi_upsert_entity(entity)
    \/ \E user_id \in {"citizen_user_1", "nobody"}, station_id \in {None, "st1"},
          start_date \in Dates, end_date \in Dates :
          \/ list_citizen_sessions(user_id, station_id, start_date, end_date)
          \/ get_citizen_sessions_stats(user_id, station_id, start_date, end_date)

SpecCitizen == InitCitizen /\ [][NextCitizen]_vars

\* The last request listed the sessions of a citizen, or their statistics,
\* with a start_date later than the end_date.
InvertedRange ==
    /\ http.op \in {"citizen_sessions", "citizen_stats"}
    /\ http.start_date.given
    /\ http.end_date.given
    /\ http.start_date.aware = http.end_date.aware
    /\ http.start_date.t > http.end_date.t

----------------------------------------------------------------------------
(* The specification of the station writes: entity upserts of stations and *)
(* the station updates of the replayer, with no subscriber.                 *)

MirrorEntities ==
    {Entity("st3", StationType, ("status" :> Prop("busy")) @@ ("name" :> Prop("n")) @@ a @@ q) :
        a \in Opt("availableCapacity", {Prop("5"), Prop("'5'"), Prop(None), Scalar}),
        q \in Opt("queueLength", {Prop("3"), Prop("soon")})}

MirrorEvents ==
    {Event("update", Entity("st3", StationType, attrs)) :
       attrs \in {"availableCapacity" :> Prop("1"),
                  "status" :> PropAt("free", "t1"),
                  ("queueLength" :> Prop("2")) @@ ("availableCapacity" :> PropAt(None, "t1"))}}

InitMirror == InitWith([1..2 -> MirrorEvents])

NextMirror ==
    \/ \E entity \in MirrorEntities : ngsi_upsert_entity(entity)
    \/ WorkerStart
    \/ WorkerApply
    \/ WorkerSleep

SpecMirror == InitMirror /\ [][NextMirror]_vars

\* The recognized fields of a station and the attribute each is imported from.
MirrorOf(f) ==
    CASE f = "available_capacity" -> "availableCapacity"
      [] f = "status" -> "status"
      [] f = "instantaneous_power" -> "instantaneousPower"
      [] f = "queue_length" -> "queueLength"

\* C21: for each of the four recognized fields of every stored station, the
\* normalized value equals the value held in the raw representation (both
\* absent or null counting as equal).
C21_NormalizedEqualsRaw ==
    \A id \in DOMAIN stations :
        \A f \in {"available_capacity", "status", "instantaneous_power", "queue_length"} :
            stations[id].fields[f] = AttrValue(Attr(stations[id].raw, MirrorOf(f)))

\* The update path alone: a station update that was applied leaves every field
\* it gave equal to its mirror, both holding the value of the update.
UpdateKeepsMirror ==
    [][(pc["worker"] = "apply" /\ pc'["worker"] # "apply")
       => LET c == call'["worker"]
              id == c.event.entity.id
          IN  (~c.raised /\ c.writes = 1 /\ id \in DOMAIN stations)
              => \A f \in DOMAIN StationUpdates(c.event.entity) :
                    /\ stations'[id].fields[f] = StationUpdates(c.event.entity)[f]
                    /\ AttrValue(Attr(stations'[id].raw, MirrorOf(f)))
                         = StationUpdates(c.event.entity)[f]]_vars

----------------------------------------------------------------------------
(* The specification of the race: the replayer and one PATCH request at a  *)
(* time update the same station, their broadcasts to the subscribers       *)
(* overlap at the awaited sends.                                            *)

RaceEvent ==
    Event("update", Entity("st1", StationType,
                           ("availableCapacity" :> Prop("1"))
                           @@ ("status" :> PropAt("busy", "t1"))))

RacePatch == PatchAttrs(("availableCapacity" :> Prop("2")) @@ ("queueLength" :> Prop("3")))

InitRace == InitWith({<<RaceEvent>>})

\* The subscribers of the race: they connect and stay connected.
MaxRaceConn == 3

NextRace ==
    \/ \E w \in 1..MaxRaceConn : Connect(w)
    \/ WorkerStart
    \/ WorkerApply
    \/ WorkerSleep
    \/ PatchRequest("st1", RacePatch)
    \/ \E p \in Procs : SendReturn(p)

SpecRace == InitRace /\ [][NextRace]_vars

\* The other task.
Other(p) == CHOOSE q \in Procs : q # p

\* The step is one of task p.
TaskStep(p) ==
    /\ pc'[Other(p)] = pc[Other(p)] /\ call'[Other(p)] = call[Other(p)]
    /\ pc'[p] # pc[p] \/ call'[p] # call[p] \/ stations' # stations

\* Task p calls apply_realtime_event in this step and its write is applied.
Writes(p) ==
    /\ pc[p] \in {"apply", "idle"} /\ TaskStep(p)
    /\ call'[p].writes = 1 /\ ~call'[p].raised

\* The write of task q is applied and its call of apply_realtime_event is
\* not over: it awaits a send of its broadcast.
InFlight(q) == pc[q] = "send" /\ call[q].writes = 1

\* C22: when the write of one task is applied while the update of the other
\* is in flight on the same station, every field the later write gives
\* holds its value, every field only the earlier one gave holds the value of
\* the earlier one, every other field is as before both, in the normalized
\* field and in the raw mirror; and nothing but a write changes the station.
C22_LastWriteWins ==
    [][/\ \A p \in Procs :
            (Writes(p) /\ InFlight(Other(p))) =>
                LET later == StationUpdates(call'[p].event.entity)
                    earlier == StationUpdates(call[Other(p)].event.entity)
                    doc == stations'["st1"]
                IN  \A f \in RecognizedFields :
                        /\ doc.fields[f] =
                             IF f \in DOMAIN later THEN later[f]
                             ELSE IF f \in DOMAIN earlier THEN earlier[f]
                             ELSE SeedStations["st1"].fields[f]
                        /\ AttrValue(Attr(doc.raw, MirrorOf(f))) = doc.fields[f]
       /\ (\A p \in Procs : ~Writes(p)) => stations' = stations]_vars

\* Both writes are applied, the PATCH request last, and both calls are over:
\* the station holds the values of the PATCH request and the status of the
\* replayer.
C22_Witness ==
    /\ pc["patch"] = "idle" /\ call["patch"].status = "200"
    /\ pc["worker"] = "sleep" /\ call["worker"].writes = 1
    /\ frame["worker"].done /\ frame["patch"].done
    /\ Sent(frame["worker"]) \cap Sent(frame["patch"]) # {}
    /\ stations["st1"].fields["available_capacity"] = "2"
    /\ stations["st1"].fields["queue_length"] = "3"
    /\ stations["st1"].fields["status"] = "busy"

----------------------------------------------------------------------------
(* The specification of the attribute handlers: the three handlers that    *)
(* update or append attributes, the entity upsert of a session and of a    *)
(* sensor and the replayer on one store, with no subscriber.               *)

\* The file of the replayer: a station update and the upsert of a session.
AttrsEvents ==
    <<EvAvail, Event("upsert", Entity("se1", SessionType,
                                      Without(FullSession, {"vehicleType"})))>>

AttrsEntities ==
    {Entity("se1", SessionType, FullSession), Entity("sn1", SensorType, EmptyDict)}

AttrsIds == {"st1", "se1", "sn1", "st9"}

InitAttrs == InitWith({AttrsEvents})

NextAttrs ==
    \/ \E entity \in AttrsEntities : ngsi_upsert_entity(entity)
    \/ \E id \in TaskTargets, attrs \in TaskPatches : PatchRequest(id, attrs)
    \/ \E id \in AttrsIds, attrs \in TaskPatches : ngsi_append_entity_attrs(id, attrs)
    \/ \E id \in AttrsIds : ngsi_update_entity_attr(id, "status", PropAt("busy", "t1"))
    \/ WorkerStart
    \/ WorkerApply
    \/ WorkerSleep

SpecAttrs == InitAttrs /\ [][NextAttrs]_vars

\* The step is an entity upsert of a session that was stored.
SessionUpsertRequest(id) ==
    /\ http'.op = "upsert" /\ http'.status = "201"
    /\ http'.entity.type = SessionType /\ http'.entity.id = id
    /\ pc' = pc /\ call' = call

\* The step is the replayer applying a session-upsert event.
SessionUpsertEvent(id) ==
    /\ WorkerApplies /\ IsSessionUpsert(events[pos]) /\ events[pos].entity.id = id

\* The step is a request of one of the attribute handlers (update of all
\* attributes, update of one, append) for the id.
AttrsRequest(id) == pc["patch"] = "idle" /\ TaskStep("patch") /\ call'["patch"].target = id

\* C23: a stored session document is changed by a session upsert only (an
\* entity upsert of type EVChargingSession or a session-upsert event of the
\* replayer); the attribute update and append operations addressed to the id
\* of a session leave the session documents unchanged.
C23_SessionsChangeByUpsertOnly ==
    [][/\ \A id \in DOMAIN sessions \cap DOMAIN sessions' :
            sessions'[id] # sessions[id] => SessionUpsertRequest(id) \/ SessionUpsertEvent(id)
       /\ \A id \in DOMAIN sessions : AttrsRequest(id) => sessions' = sessions]_vars

\* An attribute request addressed to the id of a stored session was served
\* and went through apply_realtime_event.
C23_Witness ==
    /\ call["patch"].found = "sessions"
    /\ call["patch"].target \in DOMAIN sessions
    /\ call["patch"].writes = 1
    /\ call["patch"].status = "200"

----------------------------------------------------------------------------
(* The other events *)

\* C24: an event whose entity type and operation are neither
\* (EVChargingStation, update) nor (EVChargingSession, upsert) is a no-op:
\* no store write, no broadcast, and the call returns.
C24_OtherCombinationsAreNoOps ==
    [][(/\ WorkerApplies
        /\ ~IsStationUpdate(events[pos])
        /\ ~IsSessionUpsert(events[pos])) =>
          /\ stations' = stations
          /\ sessions' = sessions
          /\ call'[W].writes = 0
          /\ call'[W].bcasts = 0
          /\ ~call'[W].raised
          /\ frame'[W] = NoFrame
          /\ pc'[W] = "sleep"]_vars

\* The upsert of a station and the update of a session, each with attributes
\* the other branch would have used, were applied and did nothing.
C24_Witness ==
    /\ pc[W] = "sleep"
    /\ call[W].event \in {Event("upsert", Entity("st1", StationType,
                                                 "availableCapacity" :> Prop("1"))),
                          Event("update", Entity("st1", SessionType, FullSession))}
    /\ call[W].writes = 0
    /\ stations = SeedStations /\ sessions = EmptyDict

----------------------------------------------------------------------------
(* The notifications of the attribute handlers *)

\* Task p calls apply_realtime_event, or its handler ends before, in this step.
Calls(p) == pc[p] \in {"apply", "idle"} /\ TaskStep(p)

\* C25: a station_update notification is broadcast only for the id of a
\* station the store holds at the time of the update, and a request that ends
\* with a not-found result has broadcast nothing.
C25_StationUpdateOnlyForStations ==
    [][\A p \in Procs :
          Calls(p) =>
             /\ StationUpdateEmitted(call'[p], frame'[p]) =>
                   frame'[p].msg.stationId \in DOMAIN stations
             /\ call'[p].status = "404" => call'[p].bcasts = 0]_vars

\* The part of it that is about the update and append handlers that look the
\* id up first: a notification for the id of a session or of a sensor.
NotifiesOnlyFoundStations ==
    [][(Calls("patch") /\ call'["patch"].found # None
        /\ StationUpdateEmitted(call'["patch"], frame'["patch"]))
       => call'["patch"].found = "stations"]_vars

\* The part of it that is about not-found results.
NotFoundBroadcastsNothing == call["patch"].status = "404" => call["patch"].bcasts = 0

----------------------------------------------------------------------------
(* The order of the notifications *)

\* manager.broadcast of task p goes on to subscriber w in this step and calls
\* send_json on it.
SendsTo(p, w) ==
    /\ pc[p] = "send" /\ pc'[p] = "send"
    /\ frame'[p].i # frame[p].i /\ frame'[p].cur = w

\* send_json of the notification of task q was called on w.
HandedTo(q, w) == w \in Range(frame[q].sent) \cup {frame[q].cur}

\* The write of task q is the one applied to the station last: the two tasks
\* give available_capacity different values.
WroteLast(q) ==
    /\ call[q].writes = 1
    /\ stations["st1"].fields["available_capacity"]
         = StationUpdates(call[q].event.entity)["available_capacity"]

\* C26: the notifications for a station reach a subscriber in the order of
\* the writes: a notification is never handed to a subscriber that was already
\* handed the notification of a later write to the same station.
C26_NotificationsInWriteOrder ==
    [][\A p \in Procs, w \in WebSockets :
          (SendsTo(p, w) /\ WroteLast(Other(p))) => ~HandedTo(Other(p), w)]_vars

----------------------------------------------------------------------------
(* The one-time passwords *)

\* The step serves a verification request.
Verifies == http'.op = "verify" /\ http' # http

\* The pending registration of the username carries the OTP.
OtpMatches(username, otp) == username \in DOMAIN pending /\ pending[username].otp = otp

\* C28: verify_registration creates an account for a username only if the
\* OTP supplied is the one of the pending registration of the username, which
\* is the OTP of the last register that was stored for it, and that OTP has
\* not expired; a wrong OTP leaves pending registrations and users unchanged;
\* an expired OTP creates no account and deletes the pending registration.
C28_AccountOnlyByCurrentOtp ==
    [][/\ Verifies =>
            /\ users' # users =>
                  /\ OtpMatches(http'.username, http'.otp)
                  /\ pending[http'.username].expires_at >= now
                  /\ \E i \in DOMAIN users' \ DOMAIN users :
                        /\ users' = replace_one(users, i, users'[i])
                        /\ users'[i] = User(http'.username, pending[http'.username].email,
                                            pending[http'.username].role, FALSE)
            /\ ~OtpMatches(http'.username, http'.otp) =>
                  users' = users /\ pending' = pending
            /\ (OtpMatches(http'.username, http'.otp)
                /\ pending[http'.username].expires_at < now) =>
                  users' = users /\ http'.username \notin DOMAIN pending'
       /\ ~Verifies => users' = users
       /\ \A u \in DOMAIN pending' :
             (u \notin DOMAIN pending \/ pending'[u] # pending[u]) =>
                /\ http'.op = "register" /\ http'.username = u
                /\ pending'[u].otp = http'.otp
                /\ pending'[u].expires_at = now + OTP_EXPIRATION_SECONDS]_vars

\* A verification created an account after the username had registered anew.
C28_Witness ==
    /\ http.op = "verify" /\ http.status = "200" /\ http.otp = "222222"
    /\ now > 0
    /\ FindUsername(users, http.username) # None
    /\ http.username \notin DOMAIN pending

\* A verification with an expired OTP deleted the pending registration.
ExpiredOtpWitness ==
    /\ http.op = "verify" /\ http.detail = "otp expired"
    /\ http.username \notin DOMAIN pending
    /\ FindUsername(users, http.username) = None

----------------------------------------------------------------------------
(* The specification of concurrent verifications: verify_registration is   *)
(* declared with def, so two requests run in two threads of the pool and    *)
(* their reads and writes of the store interleave.                          *)

\* verify_registration in thread t, up to the insert_one of
\* _finalize_registration: _validate_pending_registration and the checks of
\* _finalize_registration have read the store; a check that fails ends the
\* request with its 400.
VerifyBegin(t, username, otp) ==
    LET valid == validate_pending_registration(username, otp)
        final == IF valid = "ok" THEN finalize_registration(username) ELSE valid
    IN  /\ threads[t] = Idle
        /\ threads' = [threads EXCEPT ![t] =
                         IF final = "ok"
                         THEN [op |-> "verify", username |-> username, otp |-> otp,
                               pending |-> pending[username]]
                         ELSE Idle]
        /\ pending' = IF valid = "otp expired" THEN delete_one(pending, username)
                      ELSE pending
        /\ http' = IF final = "ok" THEN http
                   ELSE [op |-> "verify", username |-> username, otp |-> otp,
                         status |-> "400", detail |-> final]
        /\ UNCHANGED <<users, now>>
        /\ UNCHANGED <<active_connections, conn, peer, events, pos, pc, frame, call, hist>>
        /\ UNCHANGED <<stations, sessions, sensors>>

\* The rest of _finalize_registration in thread t: insert_one of the user
\* built from the pending registration it read, delete_one of that pending
\* registration, and the response.
VerifyEnd(t) ==
    /\ threads[t].op = "verify"
    /\ ObjectIds \ DOMAIN users # {}
    /\ users' = insert_one(users, User(threads[t].username, threads[t].pending.email,
                                       threads[t].pending.role, FALSE))
    /\ pending' = delete_one(pending, threads[t].username)
    /\ threads' = [threads EXCEPT ![t] = Idle]
    /\ http' = [op |-> "verify", username |-> threads[t].username, otp |-> threads[t].otp,
                status |-> "200", detail |-> "ok"]
    /\ UNCHANGED now
    /\ UNCHANGED <<active_connections, conn, peer, events, pos, pc, frame, call, hist>>
    /\ UNCHANGED <<stations, sessions, sensors>>

InitVerify == InitWith({<<EvAvail>>})

NextVerify ==
    \/ \E username \in {"new", "other"}, email \in {"new@x", "New@x"}, otp \in Otps,
          sent \in BOOLEAN : register(username, email, "citizen", otp, sent)
    \/ \E t \in Threads, username \in {"new", "other"}, otp \in Otps :
          VerifyBegin(t, username, otp)
    \/ \E t \in Threads : VerifyEnd(t)

SpecVerify == InitVerify /\ [][NextVerify]_vars

\* The accounts with the username.
Accounts(username) == {i \in DOMAIN users : users[i].username = username}

\* C27: after any interleaving of register and verify_registration requests
\* the users collection holds at most one account per username.
C27_OneAccountPerUsername ==
    \A i \in DOMAIN users : Cardinality(Accounts(users[i].username)) <= 1

----------------------------------------------------------------------------
(* The specification of the admin operations on users: update_user_role,  *)
(* toggle_user_lock and delete_user are declared with def; the dependency   *)
(* get_current_admin is resolved first, then the handler runs in a thread   *)
(* of the pool, side by side with the handlers of other requests.           *)

\* main._find_user_by_id: by _id (as ObjectId, then as string), then by
\* username.  The _id of the document found, None when there is none.
find_user_by_id(us, user_id) ==
    IF user_id \in DOMAIN us THEN user_id ELSE FindUsername(us, user_id)

\* A request of an admin operation (op is "role", "lock" or "delete", value
\* the new role or lock) arrives: get_current_admin is resolved, and either
\* fails, which ends the request, or gives current_user, with which the
\* handler is handed to thread t.
AdminBegin(t, token, op, user_id, value) ==
    /\ threads[t] = Idle
    /\ IF get_current_admin(token) # "ok"
       THEN /\ http' = [op |-> op, token |-> token, user_id |-> user_id,
                        status |-> get_current_admin(token)]
            /\ UNCHANGED threads
       ELSE /\ threads' = [threads EXCEPT ![t] =
                             [op |-> op, token |-> token, user_id |-> user_id,
                              value |-> value,
                              current_user |-> FindUsername(users, token.sub)]]
            /\ UNCHANGED http
    /\ UNCHANGED <<users, pending, now>>
    /\ UNCHANGED <<active_connections, conn, peer, events, pos, pc, frame, call, hist>>
    /\ UNCHANGED <<stations, sessions, sensors>>

\* The status of the handler of thread t: 400 for a role that is none of the
\* three, 404 when _find_user_by_id finds nothing, 400 when the _id of the
\* document found is current_user.id.
AdminStatus(r, us) ==
    IF r.op = "role" /\ r.value \notin {"citizen", "manager", "admin"} THEN "400"
    ELSE IF find_user_by_id(us, r.user_id) = None THEN "404"
    ELSE IF find_user_by_id(us, r.user_id) = r.current_user THEN "400"
    ELSE "200"

\* The handler of thread t runs: update_one of the role or of is_locked, or
\* delete_one, of the document found.
AdminEnd(t) ==
    LET r == threads[t]
        target == find_user_by_id(users, r.user_id)
    IN  /\ r.op \in {"role", "lock", "delete"}
        /\ users' = IF AdminStatus(r, users) # "200" THEN users
                    ELSE CASE r.op = "role" -> [users EXCEPT ![target].role = r.value]
                           [] r.op = "lock" ->
                                [users EXCEPT ![target].is_locked = (r.value = "true")]
                           [] r.op = "delete" -> delete_one(users, target)
        /\ http' = [op |-> r.op, token |-> r.token, user_id |-> r.user_id,
                    status |-> AdminStatus(r, users)]
        /\ threads' = [threads EXCEPT ![t] = Idle]
        /\ UNCHANGED <<pending, now>>
        /\ UNCHANGED <<active_connections, conn, peer, events, pos, pc, frame, call, hist>>
        /\ UNCHANGED <<stations, sessions, sensors>>

\* The operations asked for: the role change to citizen, lock, unlock, delete.
AdminOps == {<<"role", "citizen">>, <<"lock", "true">>, <<"lock", "false">>,
             <<"delete", "-">>}

\* The identifiers that address the two admins, one by username and one by
\* _id.
AdminUserIds == {"admin", "oid-l"}

\* The tokens of the two admins.
AdminTokens == {Token("admin"), Token("locked")}

InitAdmins == InitWith({<<EvAvail>>})

NextAdmins ==
    \/ \E t \in Threads, token \in AdminTokens, o \in AdminOps, user_id \in AdminUserIds :
          AdminBegin(t, token, o[1], user_id, o[2])
    \/ \E t \in Threads : AdminEnd(t)

SpecAdmins == InitAdmins /\ [][NextAdmins]_vars

\* C29: the system, which has an unlocked admin account at the start, is
\* never left without any unlocked admin account.
C29_AlwaysAnUnlockedAdmin ==
    \E i \in DOMAIN users : users[i].role = "admin" /\ ~users[i].is_locked

\* The part of it that is about one's own account: an operation never
\* changes or deletes the account of the admin who asked for it.
NotOnOneself ==
    [][\A t \in Threads :
          (threads[t] # Idle /\ threads'[t] = Idle /\ threads[t].current_user \in DOMAIN users)
          => /\ threads[t].current_user \in DOMAIN users'
             /\ users'[threads[t].current_user] = users[threads[t].current_user]]_vars

----------------------------------------------------------------------------
(* The specification of the profile update next to the registrations.      *)

\* PATCH /auth/me with the e-mail address given (None when the body has
\* none): the document of the user of the token, found by _id or by
\* username, gets the address by update_one.
update_current_user_info(token, email) ==
    LET active == get_current_active_user(token)
        user_doc == FindUsername(users, token.sub)
    IN  /\ users' = IF active = "ok" /\ email # None
                    THEN [users EXCEPT ![user_doc].email = email]
                    ELSE users
        /\ http' = [op |-> "me", token |-> token, email |-> email,
                    status |-> IF active = "ok" THEN "200" ELSE active]
        /\ UNCHANGED <<pending, now, threads>>
        /\ UNCHANGED <<active_connections, conn, peer, events, pos, pc, frame, call, hist>>
        /\ UNCHANGED <<stations, sessions, sensors>>

\* The addresses a profile update gives.
ProfileEmails == {None, "New@x", "admin@x", "mine@x"}

InitProfile == InitWith({<<EvAvail>>})

NextProfile ==
    \/ \E username \in {"new", "other"}, email \in {"new@x", "New@x"}, otp \in Otps :
          register(username, email, "citizen", otp, TRUE)
    \/ \E username \in {"new", "other"}, otp \in Otps : verify_registration(username, otp)
    \/ \E token \in {Token("citizen1"), Token("new"), Token("locked")},
          email \in ProfileEmails : update_current_user_info(token, email)

SpecProfile == InitProfile /\ [][NextProfile]_vars

\* C30: no two user accounts have the same e-mail address, compared without
\* case, and no address is held by a user account and by a pending
\* registration of another username.
C30_EmailsAreUnique ==
    /\ \A i, j \in DOMAIN users :
          i # j => ~EmailMatches(users[i].email, users[j].email)
    /\ \A i \in DOMAIN users, u \in DOMAIN pending :
          EmailMatches(users[i].email, pending[u].email) => u = users[i].username

====
